---- MODULE Spec2Model ----
(***************************************************************************)
(* Model of the HDHomeRun signal server (src/unnamed/part_001):            *)
(*   - the per-socket monitoring sessions of HDHomeRunController           *)
(*     (startMonitoring / startAntennaMode / stopMonitoring and the        *)
(*     socket.io connection handlers), with the setInterval timers and the *)
(*     asynchronous ticks they fire;                                       *)
(*   - autoDiscoverDevices with the cloud (HTTP) discovery cache;          *)
(*   - discoverDevices with the manual hosts and getDeviceByHost;          *)
(*   - getTunerStatus and getCurrentChannelPrograms;                       *)
(*   - the queries a monitoring tick awaits and the event it emits;        *)
(*   - the methods that run one command, with the routes that call them;   *)
(*   - the browser's socket (src/unnamed/part_000) and its reconnection;   *)
(*   - scanChannels and the stream routes;                                 *)
(*   - the history of the AntennaMode component                            *)
(*     (src/frontend/src/components/AntennaMode.js);                       *)
(*   - the single polling timer of src/backend/server.js.                  *)
(***************************************************************************)
EXTENDS Integers, Sequences, FiniteSets, TLC

(* ---------------------------- bounds ---------------------------------- *)

\* number of socket connections (each connection has its own socket.id)
NumSockets == 2
\* number of timer events the model follows: setInterval calls plus callback
\* invocations (ticks), over all sockets
MaxTimerEvents == 3
\* number of autoDiscoverDevices calls the model follows
NumCalls == 2
MaxAdvances == 2
MaxDiscoverCalls == 2
MaxSignalRaw == 100
\* number of lines in the output of a channel scan
MaxScanLines == 3
\* number of antenna-mode-status updates with data, and of updates with a
\* failed tuner or without data among them
MaxArrivals == 62
MaxOddUpdates == 1

Sockets == 1..NumSockets
TimerIds == 1..MaxTimerEvents
Calls == 1..NumCalls

\* the tunerCount values a client sends with start-antenna-mode
TunerCounts == {2}

\* monitoringIntervals.has(socket.id) is false
NoTimer == 0

(* ------------------------ monitoring: state --------------------------- *)

VARIABLES
  sockState,            \* per socket: "new" (not yet connected), "connected", "closed"
  monitoringIntervals,  \* the Map socket.id -> intervalId (NoTimer: no entry)
  timerLive,            \* interval timers the runtime still fires (set, not cleared)
  timerInfo,            \* what each created timer's closure captured: socket, mode, arg
  nextTimerId,          \* the handle the next setInterval returns
  tickSeq,              \* per timer: number of callback invocations started
  inflight,             \* callback invocations that have started and not finished
  lastEvent,            \* the last event delivered to a client
  httpDiscoveryCache,   \* this.httpDiscoveryCache
  calls,                \* the autoDiscoverDevices invocations
  disableDiscovery,     \* process.env.HDHOMERUN_DISABLE_DISCOVERY === 'true'
  manualDevices,        \* process.env.HDHOMERUN_DEVICES, split at the commas
  deviceNameCache,      \* this.deviceNameCache: host -> {device, timestamp}
  now,                  \* Date.now(), in milliseconds since the process started
  advances,             \* how many times the clock has moved
  started,              \* how many discoverDevices calls have been made
  devices,              \* this.devices
  dcalls,               \* the discoverDevices invocations
  tin,                  \* what the status and debug commands return
  tout,                 \* what getTunerStatus resolved to
  progs,                \* the getCurrentChannelPrograms invocations
  ticks,                \* callback invocations followed query by query
  tickEvent,            \* the socket.emit call of the latest tick, the tick caught last
  reqs,                 \* the REST requests and controller calls being served
  client,               \* the browser: its socket, its refs, its reconnect timers
  monitoringInterval    \* backend/server.js: this.monitoringInterval (NoTimer: null)

varsMon == <<sockState, monitoringIntervals, timerLive, timerInfo, nextTimerId,
             tickSeq, inflight, lastEvent>>
varsDisc == <<httpDiscoveryCache, calls>>
varsDev == <<disableDiscovery, manualDevices, deviceNameCache, now, advances,
             started, devices, dcalls>>
varsTun == <<tin, tout, progs>>
varsMore == <<ticks, tickEvent, reqs, client, monitoringInterval>>
varsRest == <<varsDisc, varsDev, varsTun, varsMore>>
vars == <<sockState, monitoringIntervals, timerLive, timerInfo, nextTimerId,
          tickSeq, inflight, lastEvent, httpDiscoveryCache, calls,
          disableDiscovery, manualDevices, deviceNameCache, now, advances,
          started, devices, dcalls, tin, tout, progs, ticks, tickEvent,
          reqs, client, monitoringInterval>>

NoInfo == [sock |-> 0, mode |-> "none", arg |-> 0]
NoEvent == [sock |-> 0, timer |-> 0, n |-> 0, kind |-> "none", live |-> TRUE]

\* what getTunerStatus resolved to, as far as the tick's branch cares:
\* null, {channel:'none'}, a status without channel, a status with a channel
StatusKinds == {"null", "none", "nochannel", "tuned"}

RECURSIVE SumTo(_, _)
SumTo(f, n) == IF n = 0 THEN 0 ELSE f[n] + SumTo(f, n - 1)

\* callback invocations started so far, over all timers
TicksStarted == SumTo(tickSeq, MaxTimerEvents)

\* setInterval calls and callback invocations so far
TimerEvents == (nextTimerId - 1) + TicksStarted

(* --------------------- monitoring: the controller --------------------- *)

\* The registry the three methods work on: the Map and the runtime's timers.
Registry == [mi |-> monitoringIntervals, live |-> timerLive]

\* stopMonitoring without clearInterval: the entry is deleted, the timer kept
stopMonitoring_noClear(reg, s) ==
  IF reg.mi[s] # NoTimer
    THEN [mi |-> [reg.mi EXCEPT ![s] = NoTimer], live |-> reg.live]
    ELSE reg

\* stopMonitoring of a controller with one process-wide interval
stopMonitoring_global(reg, s) ==
  [mi |-> [x \in Sockets |-> NoTimer], live |-> {}]

\* stopMonitoring(socket)
stopMonitoring(reg, s) ==
  IF reg.mi[s] # NoTimer
    THEN [mi |-> [reg.mi EXCEPT ![s] = NoTimer], live |-> reg.live \ {reg.mi[s]}]
    ELSE reg

\* startMonitoring that forgets to stop the previous session
startMonitoring_noStop(reg, s, id) ==
  [mi |-> [reg.mi EXCEPT ![s] = id], live |-> reg.live \cup {id}]

\* startMonitoring(socket, ...): stop, setInterval, record the handle
startMonitoring(reg, s, id) ==
  LET r == stopMonitoring(reg, s)
  IN [mi |-> [r.mi EXCEPT ![s] = id], live |-> r.live \cup {id}]

\* startAntennaMode(socket, ...): stop, setInterval, record the handle
startAntennaMode(reg, s, id) ==
  LET r == stopMonitoring(reg, s)
  IN [mi |-> [r.mi EXCEPT ![s] = id], live |-> r.live \cup {id}]

(* ------------------ monitoring: socket.io handlers -------------------- *)

\* io.on('connection'): a new socket, its handlers registered (the socket
\* ids are handed out in order)
Connect(s) ==
  /\ sockState[s] = "new"
  /\ \A x \in Sockets : x < s => sockState[x] # "new"
  /\ sockState' = [sockState EXCEPT ![s] = "connected"]
  /\ UNCHANGED <<monitoringIntervals, timerLive, timerInfo, nextTimerId,
                 tickSeq, inflight, lastEvent>>
  /\ UNCHANGED varsRest

\* socket.on('start-monitoring', {deviceId, tuner})
OnStartMonitoring(s) ==
  /\ sockState[s] = "connected"
  /\ TimerEvents < MaxTimerEvents
  /\ LET r == startMonitoring(Registry, s, nextTimerId)
     IN /\ monitoringIntervals' = r.mi
        /\ timerLive' = r.live
  /\ timerInfo' = [timerInfo EXCEPT ![nextTimerId] =
                     [sock |-> s, mode |-> "single", arg |-> 0]]
  /\ nextTimerId' = nextTimerId + 1
  /\ UNCHANGED <<sockState, tickSeq, inflight, lastEvent>>
  /\ UNCHANGED varsRest

\* socket.on('start-antenna-mode', {deviceId, tunerCount})
OnStartAntennaMode(s, tunerCount) ==
  /\ sockState[s] = "connected"
  /\ TimerEvents < MaxTimerEvents
  /\ LET r == startAntennaMode(Registry, s, nextTimerId)
     IN /\ monitoringIntervals' = r.mi
        /\ timerLive' = r.live
  /\ timerInfo' = [timerInfo EXCEPT ![nextTimerId] =
                     [sock |-> s, mode |-> "antenna", arg |-> tunerCount]]
  /\ nextTimerId' = nextTimerId + 1
  /\ UNCHANGED <<sockState, tickSeq, inflight, lastEvent>>
  /\ UNCHANGED varsRest

\* socket.on('stop-monitoring')
OnStopMonitoring(s) ==
  /\ sockState[s] = "connected"
  /\ LET r == stopMonitoring(Registry, s)
     IN /\ monitoringIntervals' = r.mi
        /\ timerLive' = r.live
  /\ UNCHANGED <<sockState, timerInfo, nextTimerId, tickSeq, inflight, lastEvent>>
  /\ UNCHANGED varsRest

\* the disconnect handler without its stopMonitoring call
disconnectCleanup_none(reg, s) == reg

\* socket.on('disconnect'): hdhrController.stopMonitoring(socket)
disconnectCleanup(reg, s) == stopMonitoring(reg, s)

\* the connection closes; socket.io runs the 'disconnect' handler
OnDisconnect(s) ==
  /\ sockState[s] = "connected"
  /\ sockState' = [sockState EXCEPT ![s] = "closed"]
  /\ LET r == disconnectCleanup(Registry, s)
     IN /\ monitoringIntervals' = r.mi
        /\ timerLive' = r.live
  /\ UNCHANGED <<timerInfo, nextTimerId, tickSeq, inflight, lastEvent>>
  /\ UNCHANGED varsRest

(* ---------------------- monitoring: the ticks ------------------------- *)

TicksOf(t) == {k \in inflight : k.timer = t}

\* socket.emit(kind, payload) from the tick k of timer t: socket.io writes the
\* packet only while the connection is open
Emit(k, kind) ==
  LET s == timerInfo[k.timer].sock
  IN lastEvent' =
       IF sockState[s] = "connected"
         THEN [sock |-> s, timer |-> k.timer, n |-> k.n, kind |-> kind,
               live |-> k.timer \in timerLive]
         ELSE lastEvent

\* the first tick record of a callback invocation of timer t
NewTick(t) ==
  [timer |-> t, n |-> tickSeq[t] + 1,
   phase |-> IF timerInfo[t].mode = "single" THEN "status" ELSE "tuners",
   status |-> "na",
   pending |-> IF timerInfo[t].mode = "single" THEN {}
               ELSE 0..(timerInfo[t].arg - 1)]

\* setInterval(..., 1000): the runtime invokes the callback of a timer that
\* has not been cleared, whether or not earlier invocations have finished
TickFire(t) ==
  /\ t \in timerLive
  /\ TimerEvents < MaxTimerEvents
  /\ tickSeq' = [tickSeq EXCEPT ![t] = @ + 1]
  /\ inflight' = inflight \cup {NewTick(t)}
  /\ UNCHANGED <<sockState, monitoringIntervals, timerLive, timerInfo,
                 nextTimerId, lastEvent>>
  /\ UNCHANGED varsRest

\* status && status.channel && status.channel !== 'none'
NeedsAtsc3(status) == status = "tuned"

\* await this.getTunerStatus(deviceId, tuner) resolves
StatusResolved(k, st) ==
  /\ k \in inflight
  /\ k.phase = "status"
  /\ inflight' = (inflight \ {k}) \cup {[k EXCEPT !.phase = "program", !.status = st]}
  /\ UNCHANGED <<sockState, monitoringIntervals, timerLive, timerInfo,
                 nextTimerId, tickSeq, lastEvent>>
  /\ UNCHANGED varsRest

\* await this.getCurrentProgram(deviceId, tuner) resolves
ProgramResolved(k) ==
  /\ k \in inflight
  /\ k.phase = "program"
  /\ IF NeedsAtsc3(k.status)
       THEN /\ inflight' = (inflight \ {k}) \cup {[k EXCEPT !.phase = "plp"]}
            /\ UNCHANGED lastEvent
       ELSE /\ inflight' = inflight \ {k}
            /\ Emit(k, "tuner-status")
  /\ UNCHANGED <<sockState, monitoringIntervals, timerLive, timerInfo,
                 nextTimerId, tickSeq>>
  /\ UNCHANGED varsRest

\* await this.getPlpInfo(deviceId, tuner) resolves
PlpResolved(k) ==
  /\ k \in inflight
  /\ k.phase = "plp"
  /\ inflight' = (inflight \ {k}) \cup {[k EXCEPT !.phase = "l1"]}
  /\ UNCHANGED <<sockState, monitoringIntervals, timerLive, timerInfo,
                 nextTimerId, tickSeq, lastEvent>>
  /\ UNCHANGED varsRest

\* await this.getL1Info(deviceId, tuner) resolves; socket.emit('tuner-status')
L1Resolved(k) ==
  /\ k \in inflight
  /\ k.phase = "l1"
  /\ inflight' = inflight \ {k}
  /\ Emit(k, "tuner-status")
  /\ UNCHANGED <<sockState, monitoringIntervals, timerLive, timerInfo,
                 nextTimerId, tickSeq>>
  /\ UNCHANGED varsRest

\* one getTunerStatus(deviceId, i) of the Promise.all settles; when it was
\* the last one, socket.emit('antenna-mode-status')
TunerResolved(k, i) ==
  /\ k \in inflight
  /\ k.phase = "tuners"
  /\ i \in k.pending
  /\ IF k.pending = {i}
       THEN /\ inflight' = inflight \ {k}
            /\ Emit(k, "antenna-mode-status")
       ELSE /\ inflight' = (inflight \ {k}) \cup {[k EXCEPT !.pending = @ \ {i}]}
            /\ UNCHANGED lastEvent
  /\ UNCHANGED <<sockState, monitoringIntervals, timerLive, timerInfo,
                 nextTimerId, tickSeq>>
  /\ UNCHANGED varsRest

(* ------------------- monitoring: the specification -------------------- *)

InitMon ==
  /\ sockState = [s \in Sockets |-> "new"]
  /\ monitoringIntervals = [s \in Sockets |-> NoTimer]
  /\ timerLive = {}
  /\ timerInfo = [t \in TimerIds |-> NoInfo]
  /\ nextTimerId = 1
  /\ tickSeq = [t \in TimerIds |-> 0]
  /\ inflight = {}
  /\ lastEvent = NoEvent

NextMon ==
  \/ \E s \in Sockets : Connect(s)
  \/ \E s \in Sockets : OnStartMonitoring(s)
  \/ \E s \in Sockets, n \in TunerCounts : OnStartAntennaMode(s, n)
  \/ \E s \in Sockets : OnStopMonitoring(s)
  \/ \E s \in Sockets : OnDisconnect(s)
  \/ \E t \in TimerIds : TickFire(t)
  \/ \E k \in inflight, st \in StatusKinds : StatusResolved(k, st)
  \/ \E k \in inflight : ProgramResolved(k)
  \/ \E k \in inflight : PlpResolved(k)
  \/ \E k \in inflight : L1Resolved(k)
  \/ \E k \in inflight : \E i \in k.pending : TunerResolved(k, i)

(* ------------------------ discovery: state ---------------------------- *)

\* this.httpDiscoveryCache === null
NullCache == [isNull |-> TRUE, list |-> <<>>]
CacheOf(list) == [isNull |-> FALSE, list |-> list]

\* { id: deviceId, ip: deviceIp, name: model ? `HDHomeRun ${deviceId} (${model})`
\*                                              : `HDHomeRun ${deviceId}`, online: true }
UdpDevice(deviceId, deviceIp, model) ==
  [id |-> deviceId, ip |-> deviceIp,
   name |-> [vendor |-> deviceId, model |-> model, host |-> ""], online |-> TRUE]

\* { id: ip, ip: ip, name: (as above), online: true }, ip = the entry's LocalIP
HttpDevice(deviceId, ip, model) ==
  [id |-> ip, ip |-> ip,
   name |-> [vendor |-> deviceId, model |-> model, host |-> ""], online |-> TRUE]

\* what udpDiscoverDevices can resolve to: [] (nothing found, or the command
\* failed) or the devices found, id = the vendor device id
UdpResults == {<<>>, <<UdpDevice("1040AAAA", "10.0.0.5", <<"HDHR5-4K">>)>>}

\* what httpDiscoverDevices can resolve to: [] (request error, timeout, parse
\* error, no tuner entries) or the devices listed, id = ip = LocalIP
HttpResults == {<<>>,
                <<HttpDevice("1040AAAA", "10.0.0.5", <<"HDHR5-4K">>)>>,
                <<HttpDevice("1040BBBB", "10.0.0.6", <<>>)>>}

\* an autoDiscoverDevices invocation: where it is suspended, its argument,
\* and (for the record) what it saw and did
IdleCall == [pc |-> "idle", force |-> FALSE, udp |-> <<>>, sawCache |-> NullCache,
             http |-> 0, result |-> <<>>, after |-> {}]

(* --------------------- discovery: the controller ---------------------- *)

\* the length test with an off-by-one
UdpFound_offByOne(udpDevices) == Len(udpDevices) > 1

\* if (udpDevices.length > 0)
UdpFound(udpDevices) == Len(udpDevices) > 0

\* the cache test that takes an empty cached list for a missing cache
UseCache_nonEmpty(forceRefresh, cache) ==
  ~forceRefresh /\ ~cache.isNull /\ Len(cache.list) > 0

\* the cache test without the forceRefresh flag
UseCache_ignoreForce(forceRefresh, cache) == ~cache.isNull

\* if (!forceRefresh && this.httpDiscoveryCache !== null)
UseCache(forceRefresh, cache) == ~forceRefresh /\ ~cache.isNull

\* this.httpDiscoveryCache = httpDevices
StoreHttp(cache, httpDevices) == CacheOf(httpDevices)

DoneCalls == {c \in Calls : calls[c].pc = "done"}

\* the autoDiscoverDevices invocation as it suspends at its first await
StartedCall(forceRefresh) ==
  [IdleCall EXCEPT !.pc = "udp", !.force = forceRefresh, !.after = DoneCalls]

\* autoDiscoverDevices(forceRefresh) is called: it runs up to
\* await this.udpDiscoverDevices()
AutoDiscoverCall(c, forceRefresh) ==
  /\ calls[c].pc = "idle"
  /\ calls' = [calls EXCEPT ![c] = StartedCall(forceRefresh)]
  /\ UNCHANGED httpDiscoveryCache
  /\ UNCHANGED varsDev
  /\ UNCHANGED <<varsMon, varsTun, varsMore>>

\* udpDiscoverDevices resolves: return the devices, or return the cache, or
\* go on to await this.httpDiscoverDevices()
UdpResolved(c, udpDevices) ==
  /\ calls[c].pc = "udp"
  /\ calls' = [calls EXCEPT ![c] =
       IF UdpFound(udpDevices)
         THEN [@ EXCEPT !.pc = "done", !.udp = udpDevices, !.result = udpDevices]
       ELSE IF UseCache(@.force, httpDiscoveryCache)
         THEN [@ EXCEPT !.pc = "done", !.udp = udpDevices,
                        !.sawCache = httpDiscoveryCache,
                        !.result = httpDiscoveryCache.list]
       ELSE [@ EXCEPT !.pc = "http", !.udp = udpDevices,
                      !.sawCache = httpDiscoveryCache, !.http = @ + 1]]
  /\ UNCHANGED httpDiscoveryCache
  /\ UNCHANGED varsDev
  /\ UNCHANGED <<varsMon, varsTun, varsMore>>

\* httpDiscoverDevices resolves: store the list and return it
HttpResolved(c, httpDevices) ==
  /\ calls[c].pc = "http"
  /\ httpDiscoveryCache' = StoreHttp(httpDiscoveryCache, httpDevices)
  /\ calls' = [calls EXCEPT ![c] = [@ EXCEPT !.pc = "done", !.result = httpDevices]]
  /\ UNCHANGED varsDev
  /\ UNCHANGED <<varsMon, varsTun, varsMore>>

InitDisc ==
  /\ httpDiscoveryCache = NullCache
  /\ calls = [c \in Calls |-> IdleCall]

NextDisc ==
  \/ \E c \in Calls, f \in BOOLEAN : AutoDiscoverCall(c, f)
  \/ \E c \in Calls, d \in UdpResults : UdpResolved(c, d)
  \/ \E c \in Calls, d \in HttpResults : HttpResolved(c, d)

(* ------------- discovery: discoverDevices and manual hosts ------------ *)

\* this.cacheTTL, in milliseconds
cacheTTL == 5 * 60 * 1000

\* the environments of the process: HDHOMERUN_DISABLE_DISCOVERY === 'true', and
\* the value HDHOMERUN_DEVICES has after split(','), before trim and filter
\* (<<>> is the unset or empty variable, "" an empty item)
EnvConfigs == {[disable |-> FALSE, manual |-> <<>>],
               [disable |-> FALSE, manual |-> <<"10.0.0.5">>],
               [disable |-> FALSE, manual |-> <<"10.0.0.7", "">>],
               [disable |-> TRUE, manual |-> <<>>],
               [disable |-> TRUE, manual |-> <<"10.0.0.5">>],
               [disable |-> TRUE, manual |-> <<"", "10.0.0.7">>],
               [disable |-> TRUE, manual |-> <<"10.0.0.5", "", "10.0.0.5">>]}
Hosts == {"10.0.0.5", "10.0.0.7"}

\* how far the clock (Date.now()) moves between two events
ClockSteps == {1, cacheTTL - 1}

\* stdout of `hdhomerun_config <host> get /sys/hwmodel` as a sequence of
\* tokens, or the command failing (error set: unreachable, timeout)
ExecError == <<"error">>
ModelOutputs == {ExecError, <<"\n">>, <<"HDHR5-4K", "\n">>}

\* stdout of `hdhomerun_config discover <host>` as a sequence of words
DiscoverOutputs == {<<>>,
                    <<"no", "devices", "found">>,
                    <<"hdhomerun", "device", "1040AAAA", "found", "at", "10.0.0.5">>}

\* the words matching [A-F0-9-]+ and [0-9.]+
VendorIdWords == {"1040AAAA", "1040BBBB"}
IpWords == {"10.0.0.5", "10.0.0.6", "10.0.0.7"}

Whitespace == {" ", "\n"}

\* String.prototype.trim on a token sequence
RECURSIVE TrimLeft(_)
TrimLeft(out) ==
  IF out # <<>> /\ Head(out) \in Whitespace THEN TrimLeft(Tail(out)) ELSE out

RECURSIVE TrimRight(_)
TrimRight(out) ==
  IF out # <<>> /\ out[Len(out)] \in Whitespace
    THEN TrimRight(SubSeq(out, 1, Len(out) - 1)) ELSE out

Trim(out) == TrimRight(TrimLeft(out))

\* stdout.trim() || 'Unknown'
ModelOf(stdout) == IF Trim(stdout) = <<>> THEN <<"Unknown">> ELSE Trim(stdout)

\* manualDevices.split(',').map(h => h.trim()).filter(h => h)
ManualHosts(items) == SelectSeq(items, LAMBDA h : h # "")

\* discoverOut.match(/hdhomerun device ([A-F0-9-]+) found at ([0-9.]+)/):
\* the positions where the pattern matches
MatchesAt(out) ==
  {i \in 1..Len(out) :
     /\ i + 5 <= Len(out)
     /\ out[i] = "hdhomerun" /\ out[i + 1] = "device"
     /\ out[i + 2] \in VendorIdWords
     /\ out[i + 3] = "found" /\ out[i + 4] = "at"
     /\ out[i + 5] \in IpWords}

Min(S) == CHOOSE x \in S : \A y \in S : x <= y

\* match ? match[1] : null   ("" stands for null)
VendorIdOf(out) == IF MatchesAt(out) = {} THEN "" ELSE out[Min(MatchesAt(out)) + 2]

\* a device name: the parts interpolated into the template string
NoName == [vendor |-> "", model |-> <<>>, host |-> ""]
NoDevice == [id |-> "", ip |-> "", name |-> NoName, online |-> FALSE]

\* { id: host, ip: host, name: `HDHomeRun (${host})`, online: false }
OfflineDevice(host) ==
  [id |-> host, ip |-> host, name |-> [NoName EXCEPT !.host = host], online |-> FALSE]

\* the device object addressed by the vendor id instead of the host
HostDevice_vendorId(host, model, deviceId) ==
  [id |-> IF deviceId # "" THEN deviceId ELSE host, ip |-> host,
   name |-> [vendor |-> deviceId, model |-> model, host |-> host],
   online |-> TRUE]

\* { id: host, ip: host, name: deviceId ? `HDHomeRun ${deviceId} (${model})`
\*                                      : `HDHomeRun ${model} (${host})`, online: true }
HostDevice(host, model, deviceId) ==
  [id |-> host, ip |-> host,
   name |-> IF deviceId # "" THEN [vendor |-> deviceId, model |-> model, host |-> ""]
                             ELSE [vendor |-> "", model |-> model, host |-> host],
   online |-> TRUE]

\* an entry of this.deviceNameCache; NoEntry: get(host) is undefined
NoEntry == [present |-> FALSE, device |-> NoDevice, timestamp |-> 0]
EntryOf(device, t) == [present |-> TRUE, device |-> device, timestamp |-> t]
EmptyNameCache == [h \in Hosts |-> NoEntry]

\* the cache test without the age
CacheFresh_noTTL(entry, t) == entry.present

\* cached && Date.now() - cached.timestamp < this.cacheTTL
CacheFresh(entry, t) == entry.present /\ t - entry.timestamp < cacheTTL

\* a getDeviceByHost invocation: either it returned the cached device at once
\* ("done") or it awaits the model query ("model"), then the discover query;
\* expired records that it found an entry and did not use it
NewLookup(host, cache, t) ==
  IF CacheFresh(cache[host], t)
    THEN [host |-> host, pc |-> "done", expired |-> FALSE,
          model |-> <<>>, device |-> cache[host].device]
    ELSE [host |-> host, pc |-> "model", expired |-> cache[host].present,
          model |-> <<>>, device |-> NoDevice]

HasId(devs, id) == \E i \in 1..Len(devs) : devs[i].id = id

\* the forEach without the deviceSet test
MergeDevices_noSet(devs, list) == devs \o list

\* list.forEach(device => { if (!deviceSet.has(device.id)) { deviceSet.add(
\* device.id); devices.push(device); } }); deviceSet holds the ids of devices
RECURSIVE MergeDevices(_, _)
MergeDevices(devs, list) ==
  IF list = <<>> THEN devs
  ELSE MergeDevices(IF HasId(devs, Head(list).id) THEN devs
                    ELSE Append(devs, Head(list)), Tail(list))

\* auto-discovery runs whatever the environment says
AutoDiscoveryEnabled_always(disable) == TRUE

\* !disableDiscovery
AutoDiscoveryEnabled(disable) == ~disable

\* a discoverDevices invocation: "auto" awaits autoDiscoverDevices, "manual"
\* awaits Promise.all of the getDeviceByHost calls; devices is its local array
IdleDiscover == [pc |-> "idle", force |-> FALSE, devices |-> <<>>, look |-> <<>>]

\* if (manualDevices) { ... manualHosts.map(host => this.getDeviceByHost(host)) }
StartLookups(d, cache, t) ==
  [d EXCEPT !.pc = "manual",
            !.look = [i \in 1..Len(ManualHosts(manualDevices)) |->
                        NewLookup(ManualHosts(manualDevices)[i], cache, t)]]

\* Promise.all has resolved: the call goes on to merge and return
Returns(d) == d.pc = "manual" /\ \A i \in 1..Len(d.look) : d.look[i].pc = "done"

\* manualResults.forEach(...): the array the call returns
ResultOf(d) ==
  MergeDevices(d.devices, [i \in 1..Len(d.look) |-> d.look[i].device])

\* the invocation after a step: gone when it returned
CallAfter(d) == IF Returns(d) THEN IdleDiscover ELSE d

\* this.devices = devices, when the call returns in this step
DevicesAfter(d) == IF Returns(d) THEN ResultOf(d) ELSE devices

\* discoverDevices(forceRefresh) is called: up to its first await
DiscoverCall(c, forceRefresh) ==
  LET cache == IF forceRefresh THEN EmptyNameCache ELSE deviceNameCache
      d0 == [IdleDiscover EXCEPT !.force = forceRefresh]
      d1 == IF AutoDiscoveryEnabled(disableDiscovery)
              THEN [d0 EXCEPT !.pc = "auto"]
              ELSE StartLookups(d0, cache, now)
  IN /\ started < MaxDiscoverCalls
     /\ dcalls[c].pc = "idle"
     /\ \A e \in Calls : e < c => dcalls[e].pc # "idle"
     /\ started' = started + 1
     /\ deviceNameCache' = cache
     /\ dcalls' = [dcalls EXCEPT ![c] = CallAfter(d1)]
     /\ calls' = IF AutoDiscoveryEnabled(disableDiscovery)
                   THEN [calls EXCEPT ![c] = StartedCall(forceRefresh)]
                   ELSE calls
     /\ devices' = DevicesAfter(d1)
     /\ UNCHANGED <<httpDiscoveryCache, disableDiscovery, manualDevices, now, advances>>
     /\ UNCHANGED <<varsMon, varsTun, varsMore>>

\* await this.autoDiscoverDevices(forceRefresh) returns: merge, then the
\* manual hosts
AutoReturned(c) ==
  LET d1 == StartLookups([dcalls[c] EXCEPT
                            !.devices = MergeDevices(<<>>, calls[c].result)],
                         deviceNameCache, now)
  IN /\ dcalls[c].pc = "auto"
     /\ calls[c].pc = "done"
     /\ dcalls' = [dcalls EXCEPT ![c] = CallAfter(d1)]
     /\ calls' = [calls EXCEPT ![c] = IdleCall]
     /\ devices' = DevicesAfter(d1)
     /\ UNCHANGED <<httpDiscoveryCache, disableDiscovery, manualDevices,
                    deviceNameCache, now, advances, started>>
     /\ UNCHANGED <<varsMon, varsTun, varsMore>>

\* the callback of the hwmodel query of lookup i of call c
ModelResolved(c, i, out) ==
  LET l == dcalls[c].look[i]
      l1 == IF out = ExecError
              THEN [l EXCEPT !.pc = "done", !.expired = FALSE,
                             !.device = OfflineDevice(l.host)]
              ELSE [l EXCEPT !.pc = "discover", !.model = ModelOf(out)]
      d1 == [dcalls[c] EXCEPT !.look[i] = l1]
  IN /\ dcalls[c].pc = "manual"
     /\ i \in 1..Len(dcalls[c].look)
     /\ l.pc = "model"
     /\ deviceNameCache' =
          IF out = ExecError
            THEN [deviceNameCache EXCEPT ![l.host] = EntryOf(l1.device, now)]
            ELSE deviceNameCache
     /\ dcalls' = [dcalls EXCEPT ![c] = CallAfter(d1)]
     /\ devices' = DevicesAfter(d1)
     /\ UNCHANGED <<httpDiscoveryCache, calls, disableDiscovery, manualDevices,
                    now, advances, started>>
     /\ UNCHANGED <<varsMon, varsTun, varsMore>>

\* the callback of the discover query of lookup i of call c
DiscoverResolved(c, i, out) ==
  LET l == dcalls[c].look[i]
      l1 == [l EXCEPT !.pc = "done", !.expired = FALSE,
                      !.device = HostDevice(l.host, l.model, VendorIdOf(out))]
      d1 == [dcalls[c] EXCEPT !.look[i] = l1]
  IN /\ dcalls[c].pc = "manual"
     /\ i \in 1..Len(dcalls[c].look)
     /\ l.pc = "discover"
     /\ deviceNameCache' = [deviceNameCache EXCEPT ![l.host] = EntryOf(l1.device, now)]
     /\ dcalls' = [dcalls EXCEPT ![c] = CallAfter(d1)]
     /\ devices' = DevicesAfter(d1)
     /\ UNCHANGED <<httpDiscoveryCache, calls, disableDiscovery, manualDevices,
                    now, advances, started>>
     /\ UNCHANGED <<varsMon, varsTun, varsMore>>

\* time passes between two events
Advance(dt) ==
  /\ advances < MaxAdvances
  /\ now' = now + dt
  /\ advances' = advances + 1
  /\ UNCHANGED <<httpDiscoveryCache, calls, disableDiscovery, manualDevices,
                 deviceNameCache, started, devices, dcalls>>
  /\ UNCHANGED <<varsMon, varsTun, varsMore>>

\* the environment of the process and the state after construction
InitDev(disable, manual) ==
  /\ disableDiscovery = disable
  /\ manualDevices = manual
  /\ deviceNameCache = EmptyNameCache
  /\ now = 0
  /\ advances = 0
  /\ started = 0
  /\ devices = <<>>
  /\ dcalls = [c \in Calls |-> IdleDiscover]

\* the discoverDevices invocations that run at the same time when
\* auto-discovery takes part
DiscoverSlots == {1, 2}

\* discoverDevices with every step of auto-discovery and the manual hosts
NextDev ==
  \/ \E c \in DiscoverSlots, f \in BOOLEAN : DiscoverCall(c, f)
  \/ \E c \in DiscoverSlots, d \in UdpResults : UdpResolved(c, d)
  \/ \E c \in DiscoverSlots, d \in HttpResults : HttpResolved(c, d)
  \/ \E c \in DiscoverSlots : AutoReturned(c)
  \/ \E c \in DiscoverSlots, i \in 1..2, out \in ModelOutputs : ModelResolved(c, i, out)
  \/ \E c \in DiscoverSlots, i \in 1..2, out \in DiscoverOutputs :
       DiscoverResolved(c, i, out)

\* the manual hosts alone, with the clock
NextHost ==
  \/ \E c \in Calls, f \in BOOLEAN : DiscoverCall(c, f)
  \/ \E c \in Calls, i \in 1..2, out \in ModelOutputs : ModelResolved(c, i, out)
  \/ \E c \in Calls, i \in 1..2, out \in DiscoverOutputs : DiscoverResolved(c, i, out)
  \/ \E dt \in ClockSteps : Advance(dt)

(* ------------------- tuner status: getTunerStatus --------------------- *)

\* strings are sequences of one-character strings
Str_none == <<"n", "o", "n", "e">>

DigitSeq == <<"0", "1", "2", "3", "4", "5", "6", "7", "8", "9">>
DigitValue(ch) == CHOOSE v \in 0..9 : DigitSeq[v + 1] = ch

\* only the last digit counts
ParseInt_lastDigit(ds) == IF ds = <<>> THEN 0 ELSE DigitValue(ds[Len(ds)])

\* parseInt of a run of digits
RECURSIVE ParseInt(_)
ParseInt(ds) ==
  IF ds = <<>> THEN 0
  ELSE ParseInt(SubSeq(ds, 1, Len(ds) - 1)) * 10 + DigitValue(ds[Len(ds)])

\* a number interpolated into a template string
RECURSIVE ToDigits(_)
ToDigits(n) ==
  IF n < 10 THEN <<DigitSeq[n + 1]>>
  ELSE ToDigits(n \div 10) \o <<DigitSeq[(n % 10) + 1]>>

\* the character classes [^\s] and \d
NonSpace == [neg |-> TRUE, set |-> Whitespace \cup {"\t"}]
DigitClass == [neg |-> FALSE, set |-> {DigitSeq[i] : i \in 1..Len(DigitSeq)}]
InClass(ch, cls) == IF cls.neg THEN ch \notin cls.set ELSE ch \in cls.set

At(line, p) == IF p \in 1..Len(line) THEN line[p] ELSE ""
StartsAt(line, p, key) ==
  p + Len(key) - 1 <= Len(line) /\ SubSeq(line, p, p + Len(key) - 1) = key

\* the longest run of characters of the class that starts at p
RECURSIVE Run(_, _, _)
Run(line, p, cls) ==
  IF p <= Len(line) /\ InClass(line[p], cls)
    THEN <<line[p]>> \o Run(line, p + 1, cls) ELSE <<>>

\* line.match(/<key>(<class>+)/): group 1 of the leftmost match, <<>> when
\* there is no match
Capture(line, key, cls) ==
  LET P == {p \in 1..Len(line) :
              StartsAt(line, p, key) /\ Run(line, p + Len(key), cls) # <<>>}
  IN IF P = {} THEN <<>> ELSE Run(line, Min(P) + Len(key), cls)

\* const patterns = { channel: /ch=([^\s]+)/, lock: /lock=([^\s]+)/, ... }
Patterns == <<
  [key |-> "channel", prefix |-> <<"c", "h", "=">>, cls |-> NonSpace],
  [key |-> "lock", prefix |-> <<"l", "o", "c", "k", "=">>, cls |-> NonSpace],
  [key |-> "ss", prefix |-> <<"s", "s", "=">>, cls |-> DigitClass],
  [key |-> "snq", prefix |-> <<"s", "n", "q", "=">>, cls |-> DigitClass],
  [key |-> "seq", prefix |-> <<"s", "e", "q", "=">>, cls |-> DigitClass],
  [key |-> "bps", prefix |-> <<"b", "p", "s", "=">>, cls |-> DigitClass],
  [key |-> "pps", prefix |-> <<"p", "p", "s", "=">>, cls |-> DigitClass] >>

\* ['ss', 'snq', 'seq', 'bps', 'pps'].includes(key)
IsNumericKey(key) == key \in {"ss", "snq", "seq", "bps", "pps"}

Matched(line) ==
  {i \in 1..Len(Patterns) : Capture(line, Patterns[i].prefix, Patterns[i].cls) # <<>>}

FieldValue(line, i) ==
  IF IsNumericKey(Patterns[i].key)
    THEN ParseInt(Capture(line, Patterns[i].prefix, Patterns[i].cls))
    ELSE Capture(line, Patterns[i].prefix, Patterns[i].cls)

\* the status object after the pattern loop and status.lock = status.lock !==
\* undefined: a function from the property names present to their values
StatusOf(line) ==
  [k \in {Patterns[i].key : i \in Matched(line)} \cup {"lock"} |->
     IF k = "lock" THEN \E i \in Matched(line) : Patterns[i].key = "lock"
     ELSE FieldValue(line, CHOOSE i \in 1..Len(Patterns) : Patterns[i].key = k)]

\* debugResult.match(/dbg=(\d+)-(\d+)\/(-?\d+)/): the groups of the leftmost
\* match
DbgAt(line, p) ==
  LET d1 == Run(line, p + 4, DigitClass)
      q == p + 4 + Len(d1)
      d2 == Run(line, q + 1, DigitClass)
      r == q + 1 + Len(d2)
      sign == IF At(line, r + 1) = "-" THEN <<"-">> ELSE <<>>
      d3 == Run(line, r + 1 + Len(sign), DigitClass)
  IN [found |-> /\ StartsAt(line, p, <<"d", "b", "g", "=">>)
                /\ d1 # <<>> /\ At(line, q) = "-"
                /\ d2 # <<>> /\ At(line, r) = "/"
                /\ d3 # <<>>,
      signal |-> d1, snr |-> d2, third |-> sign \o d3]

DbgMatch(line) ==
  LET P == {p \in 1..Len(line) : DbgAt(line, p).found}
  IN IF P = {} THEN [found |-> FALSE, signal |-> <<>>, snr |-> <<>>, third |-> <<>>]
     ELSE DbgAt(line, Min(P))

\* the weak band ends 5 dB below the start of the fair band
EstimatedSs10_jump(signalRaw) ==
  IF signalRaw >= 80 THEN -400 - (100 - signalRaw) * 5
  ELSE IF signalRaw >= 60 THEN -500 - (80 - signalRaw) * 5
  ELSE IF signalRaw >= 20 THEN -600 - (60 - signalRaw) * 5
  ELSE -850 - (20 - signalRaw) * 5

\* a slope of 1 dB per unit in every band
EstimatedSs10_steep(signalRaw) ==
  IF signalRaw >= 80 THEN -400 - (100 - signalRaw) * 10
  ELSE IF signalRaw >= 60 THEN -500 - (80 - signalRaw) * 10
  ELSE IF signalRaw >= 20 THEN -600 - (60 - signalRaw) * 10
  ELSE -800 - (20 - signalRaw) * 10

\* Math.round(estimatedSignalDbm * 10), i.e. ssDb in tenths of a dB; every
\* band's value is a multiple of 0.5 and exact in floating point
EstimatedSs10(signalRaw) ==
  IF signalRaw >= 80 THEN -400 - (100 - signalRaw) * 5
  ELSE IF signalRaw >= 60 THEN -500 - (80 - signalRaw) * 5
  ELSE IF signalRaw >= 20 THEN -600 - (60 - signalRaw) * 5
  ELSE -800 - (20 - signalRaw) * 5

\* snrRaw > 0 ? Math.round(snrRaw * 0.31 * 10) : 0, snrDb in tenths of a dB
SnrDb10(snrRaw) == IF snrRaw > 0 THEN (31 * snrRaw + 5) \div 10 ELSE 0

\* `${signalRaw}-${snrRaw}/${dbgMatch[3]}`
DebugRaw(m) ==
  ToDigits(ParseInt(m.signal)) \o <<"-">> \o ToDigits(ParseInt(m.snr)) \o <<"/">> \o m.third

\* what getStatusCommand resolves to: null on error, else stdout.trim()
NullOut == [isNull |-> TRUE, text |-> <<>>]
CmdResult(stdout) == [isNull |-> FALSE, text |-> Trim(stdout)]

\* a JavaScript string or null used as a condition
Truthy(result) == ~result.isNull /\ result.text # <<>>

\* resolve(null)
Null == [null |-> TRUE]

\* a failed or unmatched debug query makes the whole status null
WithDebug_nullOnFail(status, debugResult) ==
  IF Truthy(debugResult) /\ DbgMatch(debugResult.text).found
    THEN status @@ ("ssDb" :> EstimatedSs10(ParseInt(DbgMatch(debugResult.text).signal)))
    ELSE Null

\* if (debugResult) { const dbgMatch = ...; if (dbgMatch) { status.ssDb = ...;
\* status.snrDb = ...; status.debugRaw = ...; } }
WithDebug(status, debugResult) ==
  IF Truthy(debugResult) /\ DbgMatch(debugResult.text).found
    THEN LET m == DbgMatch(debugResult.text)
         IN status @@ ("ssDb" :> EstimatedSs10(ParseInt(m.signal)))
                   @@ ("snrDb" :> SnrDb10(ParseInt(m.snr)))
                   @@ ("debugRaw" :> DebugRaw(m))
    ELSE status

\* the status line is never taken for 'none'
IsNone_never(statusLine) == FALSE

\* statusLine === 'none'
IsNone(statusLine) == statusLine = Str_none

\* resolve({ channel: 'none', lock: false })
NoneStatus == ("channel" :> Str_none) @@ ("lock" :> FALSE)

\* getTunerStatus: what the promise resolves to, given what the two
\* getStatusCommand calls resolved to
TunerStatus(statusResult, debugResult) ==
  IF ~Truthy(statusResult) THEN Null
  ELSE IF IsNone(Trim(statusResult.text)) THEN NoneStatus
  ELSE WithDebug(StatusOf(Trim(statusResult.text)), debugResult)

\* the getTunerStatus result is not there yet
Pending == [pending |-> TRUE]

\* the tokens of a status line, in the order of Patterns
TokenSeq == <<<<"c", "h", "=", "8", "v", "s", "b", ":", "5">>,
              <<"l", "o", "c", "k", "=", "8", "v", "s", "b">>,
              <<"s", "s", "=", "8", "6">>,
              <<"s", "n", "q", "=", "1", "0", "0">>,
              <<"s", "e", "q", "=", "9", "9">>,
              <<"b", "p", "s", "=", "1", "9", "3", "9">>,
              <<"p", "p", "s", "=", "0">>>>

\* stdout of the status command: the tokens of S in the given order
RECURSIVE JoinTokens(_, _)
JoinTokens(ord, S) ==
  IF ord = <<>> THEN <<"\n">>
  ELSE (IF Head(ord) \in S THEN TokenSeq[Head(ord)] \o <<" ">> ELSE <<>>)
         \o JoinTokens(Tail(ord), S)

LineOf(S, rev) ==
  JoinTokens(IF rev THEN [i \in 1..Len(TokenSeq) |-> Len(TokenSeq) + 1 - i]
                    ELSE [i \in 1..Len(TokenSeq) |-> i], S)

\* what the status command can resolve to, with how the output was made
StatusInputs ==
  {[skind |-> "error", tokens |-> {}, rev |-> FALSE, status |-> NullOut],
   [skind |-> "none", tokens |-> {}, rev |-> FALSE,
    status |-> CmdResult(Str_none \o <<"\n">>)]}
  \cup {[skind |-> "tokens", tokens |-> S, rev |-> rev,
         status |-> CmdResult(LineOf(S, rev))] :
          S \in SUBSET (1..Len(TokenSeq)), rev \in BOOLEAN}

\* stdout of the debug command with a dbg= field
DbgLine(signal, snr, third) ==
  <<"t", "u", "n", ":", " ", "d", "b", "g", "=">> \o ToDigits(signal) \o <<"-">> \o ToDigits(snr)
    \o <<"/">> \o third \o <<"\n">>

\* debug outputs the pattern does not match
UnmatchedDebug == {<<>>, Str_none \o <<"\n">>, <<"t", "u", "n", ":", " ", "d", "b", "g", "=", "8", "6", "-", "\n">>,
                   <<"t", "u", "n", ":", " ", "d", "b", "g", "=", "-", "8", "6", "/", "4", "\n">>}

\* what the debug command can resolve to, with how the output was made
DebugInputs ==
  {[dkind |-> "error", signal |-> 0, snr |-> 0, debug |-> NullOut]}
  \cup {[dkind |-> "unmatched", signal |-> 0, snr |-> 0, debug |-> CmdResult(x)] :
          x \in UnmatchedDebug}
  \cup {[dkind |-> "matched", signal |-> s, snr |-> n,
         debug |-> CmdResult(DbgLine(s, n, t))] :
          s \in 0..MaxSignalRaw, n \in {0, 5, 31},
          t \in {<<"7">>, <<"-", "4", "7">>}}

\* the pairs of outputs getTunerStatus is applied to: every status output
\* with a few debug outputs, and a few status outputs with every debug output
TunerInputs ==
  {[s |-> s, d |-> d] :
     s \in StatusInputs,
     d \in {x \in DebugInputs : x.dkind = "matched" => (x.signal = 86 /\ x.snr = 31)}}
  \cup
  {[s |-> s, d |-> d] :
     s \in {x \in StatusInputs :
              x.skind = "tokens" => (~x.rev /\ x.tokens \in {{3}, 1..Len(TokenSeq)})},
     d \in DebugInputs}

NoInput == [s |-> [skind |-> "error", tokens |-> {}, rev |-> FALSE, status |-> NullOut],
            d |-> [dkind |-> "error", signal |-> 0, snr |-> 0, debug |-> NullOut]]

\* await Promise.all([...]) resolves and the outputs are parsed
GetTunerStatus ==
  /\ tout = Pending
  /\ tout' = TunerStatus(tin.s.status, tin.d.debug)
  /\ UNCHANGED <<tin, progs>>
  /\ UNCHANGED <<varsMon, varsDisc, varsDev, varsMore>>

(* -------------- current programs: getCurrentChannelPrograms ----------- *)

\* maxRetries = 3
maxRetries == 3

\* every status counts as tuned
Tuned_always(status) == TRUE

\* !(!status || !status.lock || status.channel === 'none')
Tuned(status) ==
  /\ status # Null
  /\ status["lock"]
  /\ ~("channel" \in DOMAIN status /\ status["channel"] = Str_none)

\* the status and debug outputs getCurrentChannelPrograms can meet
ProgInputs ==
  {[status |-> NullOut, debug |-> NullOut],
   [status |-> CmdResult(Str_none \o <<"\n">>), debug |-> NullOut],
   [status |-> CmdResult(LineOf({1, 3}, FALSE)), debug |-> NullOut],
   [status |-> CmdResult(<<"c", "h", "=", "n", "o", "n", "e", " ", "l", "o", "c", "k", "=", "n", "o", "n", "e", " ", "s", "s", "=", "0", "\n">>), debug |-> NullOut],
   [status |-> CmdResult(LineOf({1, 2, 3}, FALSE)), debug |-> NullOut]}

\* what the streaminfo command calls back with: error, or stdout as lines,
\* each a program line the patterns match or any other line
ProgramLine == [programNum |-> "1", virtualChannel |-> "12.1", name |-> "WHYY",
                status |-> "encrypted"]
OtherLine == [programNum |-> "", virtualChannel |-> "", name |-> "", status |-> ""]
StreamInfoOutputs ==
  {[error |-> TRUE, lines |-> <<>>]}
  \cup {[error |-> FALSE, lines |-> l] :
          l \in {<<>>, <<OtherLine>>, <<OtherLine, ProgramLine>>}}

\* lines.forEach(...): the programs parsed from the lines
RECURSIVE Programs(_)
Programs(lines) ==
  IF lines = <<>> THEN <<>>
  ELSE (IF Head(lines).programNum # ""
          THEN <<[programNum |-> Head(lines).programNum,
                  virtualChannel |-> Head(lines).virtualChannel,
                  name |-> Head(lines).name, callsign |-> Head(lines).name,
                  status |-> Head(lines).status,
                  encrypted |-> Head(lines).status = "encrypted",
                  atsc3 |-> Head(lines).status = "atsc3"]>>
          ELSE <<>>) \o Programs(Tail(lines))

\* a getCurrentChannelPrograms invocation: "status" awaits getTunerStatus,
\* "query" the streaminfo command, "wait" the retry timer; delay is the
\* delay of the last setTimeout of the call, in milliseconds
IdleProg == [pc |-> "idle", status |-> Pending, attempt |-> 0, queries |-> 0,
             delay |-> 0, result |-> <<>>]

ProgramsCall(c) ==
  /\ progs[c].pc = "idle"
  /\ progs' = [progs EXCEPT ![c] = [@ EXCEPT !.pc = "status"]]
  /\ UNCHANGED <<tin, tout>>
  /\ UNCHANGED <<varsMon, varsDisc, varsDev, varsMore>>

\* await this.getTunerStatus(deviceId, tuner) returns
ProgStatusResolved(c, in) ==
  LET status == TunerStatus(in.status, in.debug)
  IN /\ progs[c].pc = "status"
     /\ progs' = [progs EXCEPT ![c] =
          IF Tuned(status)
            THEN [@ EXCEPT !.pc = "query", !.status = status, !.queries = 1]
            ELSE [@ EXCEPT !.pc = "done", !.status = status, !.result = <<>>]]
     /\ UNCHANGED <<tin, tout>>
     /\ UNCHANGED <<varsMon, varsDisc, varsDev, varsMore>>

\* the callback of the streaminfo command
StreamInfoResolved(c, out) ==
  /\ progs[c].pc = "query"
  /\ progs' = [progs EXCEPT ![c] =
       IF out.error
         THEN IF @.attempt < maxRetries
                THEN [@ EXCEPT !.pc = "wait", !.attempt = @ + 1, !.delay = 1500]
                ELSE [@ EXCEPT !.pc = "done", !.result = <<>>]
       ELSE IF Programs(out.lines) = <<>> /\ @.attempt < maxRetries
         THEN [@ EXCEPT !.pc = "wait", !.attempt = @ + 1, !.delay = 2000]
       ELSE [@ EXCEPT !.pc = "done", !.result = Programs(out.lines)]]
  /\ UNCHANGED <<tin, tout>>
  /\ UNCHANGED <<varsMon, varsDisc, varsDev, varsMore>>

\* the retry that starts counting its attempts again
RetryTimerFires_forgets(c) ==
  /\ progs[c].pc = "wait"
  /\ progs' = [progs EXCEPT ![c] =
       [@ EXCEPT !.pc = "query", !.queries = @ + 1, !.attempt = 0]]
  /\ UNCHANGED <<tin, tout>>
  /\ UNCHANGED <<varsMon, varsDisc, varsDev, varsMore>>

\* setTimeout(tryGetPrograms, ...) fires
RetryTimerFires(c) ==
  /\ progs[c].pc = "wait"
  /\ progs' = [progs EXCEPT ![c] =
       [@ EXCEPT !.pc = "query", !.queries = @ + 1]]
  /\ UNCHANGED <<tin, tout>>
  /\ UNCHANGED <<varsMon, varsDisc, varsDev, varsMore>>

InitTun ==
  /\ tin = NoInput
  /\ tout = Pending
  /\ progs = [c \in Calls |-> IdleProg]

NextProg ==
  \/ \E c \in Calls : ProgramsCall(c)
  \/ \E c \in Calls, in \in ProgInputs : ProgStatusResolved(c, in)
  \/ \E c \in Calls, out \in StreamInfoOutputs : StreamInfoResolved(c, out)
  \/ \E c \in Calls : RetryTimerFires(c)

(* ------------------ monitoring: the queries of a tick ----------------- *)

\* the callback invocations followed query by query: invocations share no
\* state, so one is followed at a time (their overlap is in NextMon)
TickSlots == {1}

\* what the status and the debug command of a tick call back with: for
\* tuner 0 an error, none, a line without channel or a full line, with or
\* without the debug output; for the other tuners an error or a full line
TickOutputs ==
  [status |-> <<{NullOut, CmdResult(Str_none \o <<"\n">>),
                 CmdResult(LineOf({2, 3}, FALSE)), CmdResult(LineOf({1, 2, 3}, FALSE))},
                {NullOut, CmdResult(LineOf({1, 2, 3}, FALSE))}>>,
   debug |-> <<{NullOut, CmdResult(DbgLine(86, 31, <<"7">>))},
               {CmdResult(DbgLine(86, 31, <<"7">>))}>>]

\* the timeout option of the exec call that runs a command, in milliseconds
\* (0: no option is passed, the runtime never ends the child process)
ExecTimeout(cmd) ==
  IF cmd \in {"discover", "hwmodel"} THEN 5000
  ELSE IF cmd = "scan" THEN 60000
  ELSE 0

\* exec(`hdhomerun_config ${deviceId} get /tuner${tuner}/${cmd}`, ...)
Query(cmd, tuner) == [cmd |-> cmd, tuner |-> tuner, timeout |-> ExecTimeout(cmd)]

\* a callback invocation: "status" awaits getTunerStatus, "program"
\* getCurrentProgram, "plp" getPlpInfo, "l1" getL1Info, "tuners" the
\* Promise.all of antenna mode; issued are the queries started, open those
\* of them that have not called back, fetch what the status and debug
\* commands of each tuner called back with
IdleTick == [pc |-> "idle", timer |-> 0, n |-> 0, fetch |-> <<>>,
             issued |-> {}, open |-> {}, status |-> Pending,
             currentProgram |-> Null, plpInfo |-> Null, l1Info |-> Null]

\* the fetches joined on the status commands alone
Joined_statusOnly(k) == \A q \in k.open : q.cmd # "status"

\* await Promise.all([...]) is over: every status and debug command of the
\* invocation has called back
Joined(k) == k.open = {}

\* every status has a channel to look up
FetchAtsc3_any(status) == status # Null

\* status && status.channel && status.channel !== 'none'
FetchAtsc3(status) ==
  /\ status # Null
  /\ "channel" \in DOMAIN status
  /\ status["channel"] # Str_none

\* the event whose entries are all null when one fetch failed
EventOf_allOrNothing(k) ==
  [kind |-> IF k.pc = "tuners" THEN "antenna-mode-status" ELSE "tuner-status",
   by |-> k,
   payload |-> IF k.pc = "tuners"
     THEN [x \in 1..Cardinality(DOMAIN k.fetch) |->
             [tuner |-> x - 1,
              status |-> IF \E y \in DOMAIN k.fetch : k.fetch[y].status = NullOut
                           THEN Null
                           ELSE TunerStatus(k.fetch[x - 1].status, k.fetch[x - 1].debug)]]
     ELSE ("currentProgram" :> k.currentProgram)
            @@ ("plpInfo" :> k.plpInfo) @@ ("l1Info" :> k.l1Info)
            @@ (IF k.status = Null THEN [x \in {} |-> Null] ELSE k.status)]

\* the arguments of the socket.emit call that ends the invocation k:
\* ('tuner-status', {...status, currentProgram, plpInfo, l1Info}) or
\* ('antenna-mode-status', allTunersData); by is the invocation
EventOf(k) ==
  [kind |-> IF k.pc = "tuners" THEN "antenna-mode-status" ELSE "tuner-status",
   by |-> k,
   payload |-> IF k.pc = "tuners"
     THEN [x \in 1..Cardinality(DOMAIN k.fetch) |->
             [tuner |-> x - 1,
              status |-> TunerStatus(k.fetch[x - 1].status, k.fetch[x - 1].debug)]]
     ELSE ("currentProgram" :> k.currentProgram)
            @@ ("plpInfo" :> k.plpInfo) @@ ("l1Info" :> k.l1Info)
            @@ (IF k.status = Null THEN [x \in {} |-> Null] ELSE k.status)]

\* the runtime invokes the callback of timer t: the status and debug
\* commands of the tuner (single mode) or of every tuner (antenna mode) start
TickStart(i, t) ==
  LET tuners == IF timerInfo[t].mode = "single" THEN {timerInfo[t].arg}
                ELSE 0..(timerInfo[t].arg - 1)
      queries == {Query(cmd, x) : cmd \in {"status", "debug"}, x \in tuners}
  IN /\ t \in timerLive
     /\ TimerEvents < MaxTimerEvents
     /\ ticks[i].pc = "idle"
     /\ \A j \in TickSlots : j < i => ticks[j].pc # "idle"
     /\ tickSeq' = [tickSeq EXCEPT ![t] = @ + 1]
     /\ ticks' = [ticks EXCEPT ![i] =
          [IdleTick EXCEPT
             !.pc = IF timerInfo[t].mode = "single" THEN "status" ELSE "tuners",
             !.timer = t, !.n = tickSeq[t] + 1,
             !.fetch = [x \in tuners |-> [status |-> NullOut, debug |-> NullOut]],
             !.issued = queries, !.open = queries]]
     /\ tickEvent' = [tickEvent EXCEPT !.last =
          [kind |-> "none", by |-> IdleTick, payload |-> <<>>]]
     /\ UNCHANGED <<sockState, monitoringIntervals, timerLive, timerInfo,
                    nextTimerId, inflight, lastEvent>>
     /\ UNCHANGED <<varsDisc, varsDev, varsTun, reqs, client, monitoringInterval>>

\* the callback of a status or debug command of tuner x; when it was the
\* last one the invocation awaits, getTunerStatus resolves: single mode goes
\* on with getCurrentProgram, antenna mode emits
StatusCmdResolved(i, x, cmd, out) ==
  LET k == ticks[i]
      k2 == [k EXCEPT !.fetch[x][cmd] = out, !.open = @ \ {Query(cmd, x)}]
  IN /\ k.pc \in {"status", "tuners"}
     /\ Query(cmd, x) \in k.open
     /\ IF ~Joined(k2)
          THEN /\ ticks' = [ticks EXCEPT ![i] = k2]
               /\ UNCHANGED tickEvent
          ELSE IF k.pc = "status"
            THEN /\ ticks' = [ticks EXCEPT ![i] =
                      [k2 EXCEPT !.pc = "program",
                                 !.status = TunerStatus(k2.fetch[x].status,
                                                        k2.fetch[x].debug),
                                 !.issued = @ \cup {Query("program", x)},
                                 !.open = @ \cup {Query("program", x)}]]
                 /\ UNCHANGED tickEvent
            ELSE /\ ticks' = [ticks EXCEPT ![i] = IdleTick]
                 /\ tickEvent' = [tickEvent EXCEPT !.last = EventOf(k2)]
     /\ UNCHANGED varsMon
     /\ UNCHANGED <<varsDisc, varsDev, varsTun, reqs, client, monitoringInterval>>

\* await getCurrentProgram / getPlpInfo / getL1Info resolves with v: the
\* next query starts, or socket.emit('tuner-status', ...) ends the invocation
InfoResolved(i, v) ==
  LET k == ticks[i]
      x == CHOOSE x \in DOMAIN k.fetch : TRUE
      cmd == IF k.pc = "program" THEN "program"
             ELSE IF k.pc = "plp" THEN "plpinfo" ELSE "l1info"
      k2 == [k EXCEPT !.open = @ \ {Query(cmd, x)},
                      !.currentProgram = IF k.pc = "program" THEN v ELSE @,
                      !.plpInfo = IF k.pc = "plp" THEN v ELSE @,
                      !.l1Info = IF k.pc = "l1" THEN v ELSE @]
      next(pc, c) == [k2 EXCEPT !.pc = pc, !.issued = @ \cup {Query(c, x)},
                                !.open = @ \cup {Query(c, x)}]
  IN /\ k.pc \in {"program", "plp", "l1"}
     /\ IF k.pc = "program" /\ FetchAtsc3(k.status)
          THEN /\ ticks' = [ticks EXCEPT ![i] = next("plp", "plpinfo")]
               /\ UNCHANGED tickEvent
          ELSE IF k.pc = "plp"
            THEN /\ ticks' = [ticks EXCEPT ![i] = next("l1", "l1info")]
                 /\ UNCHANGED tickEvent
            ELSE /\ ticks' = [ticks EXCEPT ![i] = IdleTick]
                 /\ tickEvent' = [tickEvent EXCEPT !.last = EventOf(k2)]
     /\ UNCHANGED varsMon
     /\ UNCHANGED <<varsDisc, varsDev, varsTun, reqs, client, monitoringInterval>>

\* the catch block that also ends the session
TickThrows_stops(i) ==
  /\ ticks[i].pc \in {"program", "plp", "l1"}
  /\ ticks' = [ticks EXCEPT ![i] = IdleTick]
  /\ tickEvent' = [tickEvent EXCEPT !.caught = [timer |-> ticks[i].timer, n |-> ticks[i].n]]
  /\ timerLive' = timerLive \ {ticks[i].timer}
  /\ UNCHANGED <<sockState, monitoringIntervals, timerInfo, nextTimerId,
                 tickSeq, inflight, lastEvent>>
  /\ UNCHANGED <<varsDisc, varsDev, varsTun, reqs, client, monitoringInterval>>

\* an await of the invocation throws (exec raised inside the promise
\* executor): catch (error) { console.error('Monitoring error:', error) }
TickThrows(i) ==
  /\ ticks[i].pc \in {"program", "plp", "l1"}
  /\ ticks' = [ticks EXCEPT ![i] = IdleTick]
  /\ tickEvent' = [tickEvent EXCEPT !.caught = [timer |-> ticks[i].timer, n |-> ticks[i].n]]
  /\ UNCHANGED varsMon
  /\ UNCHANGED <<varsDisc, varsDev, varsTun, reqs, client, monitoringInterval>>

InitMore ==
  /\ reqs = [c \in Calls |-> [pc |-> "idle", op |-> "", out |-> <<>>,
                              settled |-> Null, response |-> Null]]
  /\ client = [connected |-> FALSE, hasConnectedOnce |-> FALSE, conn |-> 0,
               device |-> "", tuner |-> 0, deviceAt |-> "", timers |-> {},
               buffer |-> 0, wire |-> 0,
               emitted |-> {}, sent |-> [deviceId |-> "", tuner |-> 0],
               antenna |-> [mounted |-> FALSE, dev |-> FALSE, arrivals |-> 0,
                            odd |-> 0, historyData |-> <<>>]]
  /\ monitoringInterval = NoTimer
  /\ ticks = [i \in TickSlots |-> IdleTick]
  /\ tickEvent = [last |-> [kind |-> "none", by |-> IdleTick, payload |-> <<>>],
                  caught |-> [timer |-> 0, n |-> 0]]

\* one client's session with its ticks followed query by query
NextTick ==
  \/ Connect(1)
  \/ OnStartMonitoring(1)
  \/ \E n \in TunerCounts : OnStartAntennaMode(1, n)
  \/ OnStopMonitoring(1)
  \/ OnDisconnect(1)
  \/ \E i \in TickSlots, t \in TimerIds : TickStart(i, t)
  \/ \E i \in TickSlots, x \in 0..1, cmd \in {"status", "debug"} :
       \E out \in TickOutputs[cmd][x + 1] : StatusCmdResolved(i, x, cmd, out)
  \/ \E i \in TickSlots, v \in {Null, [value |-> "data"]} : InfoResolved(i, v)
  \/ \E i \in TickSlots : TickThrows(i)

(* --------------- single commands: the controller and the routes -------- *)

\* the methods that run one `set /tunerN/channel ...` command
WriteOps == {"setChannel", "setAtsc3Channel", "incrementChannel",
             "decrementChannel", "clearTuner"}

\* what exec calls back with: an error, or stdout as a sequence of tokens
\* ("0:" starts a plpinfo line, "lock=1" is a key=value pair)
CmdOutputs == {ExecError, <<"\n">>, <<"none", "\n">>, <<"0:", "lock=1", "\n">>}

\* a write method that resolves null on failure, as the read methods do
Settle_swallow(op, out) ==
  IF out = ExecError THEN [rejected |-> FALSE, value |-> Null]
  ELSE [rejected |-> FALSE, value |-> [text |-> Trim(out)]]

\* what the promise of the method settles to when exec calls back with out:
\* write methods reject(error) or resolve(stdout.trim()); getCurrentProgram,
\* getPlpInfo and getL1Info resolve null on an error and on an output with
\* nothing to parse
Settle(op, out) ==
  IF op \in WriteOps
    THEN IF out = ExecError THEN [rejected |-> TRUE, value |-> [text |-> out]]
         ELSE [rejected |-> FALSE, value |-> [text |-> Trim(out)]]
  ELSE [rejected |-> FALSE,
        value |->
          IF out = ExecError THEN Null
          ELSE IF op = "getCurrentProgram"
            THEN (IF Trim(out) \in {<<>>, <<"none">>} THEN Null
                  ELSE [text |-> Trim(out)])
          ELSE IF op = "getPlpInfo"
            THEN (IF \E i \in 1..Len(out) : out[i] = "0:"
                    THEN [text |-> Trim(out)] ELSE Null)
          ELSE (IF \E i \in 1..Len(out) : out[i] = "lock=1"
                  THEN [text |-> Trim(out)] ELSE Null)]

\* the route handler: try { res.json(...) } catch (error) {
\* res.status(500).json({ error: error.message }) }
Respond(op, settled) ==
  IF settled.rejected
    THEN [status |-> 500, body |-> [error |-> settled.value]]
  ELSE IF op \in WriteOps
    THEN [status |-> 200, body |-> [success |-> TRUE, result |-> settled.value]]
  ELSE [status |-> 200, body |-> settled.value]

\* a request arrives and the method starts its command
Request(c, op) ==
  /\ reqs[c].pc = "idle"
  /\ \A x \in Calls : x < c => reqs[x].pc # "idle"
  /\ reqs' = [reqs EXCEPT ![c] = [@ EXCEPT !.pc = "exec", !.op = op]]
  /\ UNCHANGED <<varsMon, varsDisc, varsDev, varsTun, ticks, tickEvent, client, monitoringInterval>>

\* the callback of exec: the promise settles and the handler answers
ExecCallback(c, out) ==
  /\ reqs[c].pc = "exec"
  /\ reqs' = [reqs EXCEPT ![c] =
       [@ EXCEPT !.pc = "done", !.out = out,
                 !.settled = Settle(reqs[c].op, out),
                 !.response = Respond(reqs[c].op, Settle(reqs[c].op, out))]]
  /\ UNCHANGED <<varsMon, varsDisc, varsDev, varsTun, ticks, tickEvent, client, monitoringInterval>>

NextCmd ==
  \/ \E c \in Calls :
       \E op \in WriteOps \cup {"getCurrentProgram", "getPlpInfo", "getL1Info"} :
         Request(c, op)
  \/ \E c \in Calls, out \in CmdOutputs : ExecCallback(c, out)

(* ------------------------ scanChannels -------------------------------- *)

\* the output of `hdhomerun_config <id> scan` is a sequence of pieces: the
\* text of one pattern with its captures (SCANNING: frequency, channel;
\* LOCK: modulation, ss, snq, seq; PROGRAM: number, virtual channel, name),
\* or a line feed. These are the lines the scan tool prints, and lines
\* that hold a SCANNING and a LOCK piece.
ScanLineShapes ==
  LET s1 == <<"SCANNING", "473000000", "us-bcast:14">>
      s2 == <<"SCANNING", "479000000", "us-bcast:15">>
      lock == <<"LOCK", "8vsb", <<"8", "6">>, <<"7", "1">>, <<"1", "0", "0">>>>
      prog == <<"PROGRAM", "3", "5.1", "KTLA">>
  IN {<<s1>>, <<s2>>, <<lock>>, <<prog>>, <<s1, lock>>, <<s2, lock>>}

\* stdout: up to n lines, each ended by a line feed
RECURSIVE ScanTexts(_)
ScanTexts(n) ==
  IF n = 0 THEN {<<>>}
  ELSE ScanTexts(n - 1) \cup
       {t \o l \o << <<"\n">> >> : t \in ScanTexts(n - 1), l \in ScanLineShapes}

\* stdout.split('\n'): the pieces between the line feeds; cur is the line
\* being collected
RECURSIVE Split(_, _)
Split(text, cur) ==
  IF text = <<>> THEN <<cur>>
  ELSE IF Head(text)[1] = "\n" THEN <<cur>> \o Split(Tail(text), <<>>)
  ELSE Split(Tail(text), Append(cur, Head(text)))

\* line.match(pattern): the position of the leftmost piece of the pattern
\* in the line, 0 for null
LineMatch(line, pattern) ==
  LET P == {p \in 1..Len(line) : line[p][1] = pattern}
  IN IF P = {} THEN 0 ELSE Min(P)

\* lines.forEach(line => {...}): a channel is pushed when the SCANNING and
\* the LOCK pattern both match the line, a program is pushed to the last
\* channel when the PROGRAM pattern matches and channels is not empty; the
\* name capture (.+) runs from the name to the end of the line: name is
\* the PROGRAM piece with the pieces that follow it in the line
RECURSIVE ParseLines(_, _)
ParseLines(lines, channels) ==
  IF lines = <<>> THEN channels
  ELSE
    LET line == Head(lines)
        scanMatch == LineMatch(line, "SCANNING")
        lockMatch == LineMatch(line, "LOCK")
        programMatch == LineMatch(line, "PROGRAM")
        c1 == IF scanMatch # 0 /\ lockMatch # 0
                THEN Append(channels,
                       [frequency |-> line[scanMatch][2],
                        channel |-> line[scanMatch][3],
                        modulation |-> line[lockMatch][2],
                        signalStrength |-> ParseInt(line[lockMatch][3]),
                        snr |-> ParseInt(line[lockMatch][4]),
                        symbolQuality |-> ParseInt(line[lockMatch][5]),
                        programs |-> <<>>])
                ELSE channels
        c2 == IF programMatch # 0 /\ Len(c1) > 0
                THEN [c1 EXCEPT ![Len(c1)].programs =
                        Append(@, [programNum |-> line[programMatch][2],
                                   virtualChannel |-> line[programMatch][3],
                                   name |-> SubSeq(line, programMatch, Len(line))])]
                ELSE c1
    IN ParseLines(Tail(lines), c2)

\* the callback of exec in scanChannels: resolve([]) on an error, else the
\* parsed channels; the route answers res.json(channels)
ScanCallback(c, error, stdout) ==
  LET channels == IF error THEN <<>> ELSE ParseLines(Split(stdout, <<>>), <<>>)
  IN /\ reqs[c].pc = "exec"
     /\ reqs[c].op = "scanChannels"
     /\ reqs' = [reqs EXCEPT ![c] =
          [@ EXCEPT !.pc = "done", !.out = IF error THEN <<>> ELSE stdout,
                    !.settled = [rejected |-> FALSE, value |-> [channels |-> channels]],
                    !.response = [status |-> 200, body |-> [channels |-> channels]]]]
     /\ UNCHANGED <<varsMon, varsDisc, varsDev, varsTun, ticks, tickEvent, client, monitoringInterval>>

\* GET /api/devices/:id/scan/:tuner, one request
NextScan ==
  \/ Request(1, "scanChannels")
  \/ \E stdout \in ScanTexts(MaxScanLines) : ScanCallback(1, FALSE, stdout)
  \/ ScanCallback(1, TRUE, <<>>)

(* ---------------------- the stream endpoints -------------------------- *)

\* a handler that answers for any id, with the id as the address
StreamResponse_anyId(endpoint, id, ch, program, name, devs) ==
  LET streamUrl == <<"http://", id, ":5004/auto/ch", ch, "-", program>>
  IN IF ch = "" \/ program = ""
       THEN [status |-> 400, body |-> <<"Missing ch or program query parameter">>,
             filename |-> <<>>]
     ELSE [status |-> 200, body |-> streamUrl, filename |-> <<>>]

\* GET /api/devices/:id/stream/url and /stream/play.m3u: texts are sequences
\* of their pieces, an absent query parameter is ""; the name given as a
\* sequence of characters; devs is hdhrController.devices
StreamResponse(endpoint, id, ch, program, name, devs) ==
  LET found == {i \in 1..Len(devs) : devs[i].id = id}
      device == devs[Min(found)]
      streamUrl == <<"http://", device.ip, ":5004/auto/ch", ch, "-", program>>
      channelName == IF name # <<>> THEN name ELSE <<"Ch", ch, " Program ", program>>
      filename == IF name # <<>>
                    THEN [i \in 1..Len(name) |->
                            IF name[i] \in {"K", "T", "L", "A", "5", ".", "1"}
                              THEN name[i] ELSE "_"]
                    ELSE <<"ch", ch, "-", program>>
  IN IF ch = "" \/ program = ""
       THEN [status |-> 400, body |-> <<"Missing ch or program query parameter">>,
             filename |-> <<>>]
     ELSE IF found = {}
       THEN [status |-> 404, body |-> <<"Device not found">>, filename |-> <<>>]
     ELSE IF endpoint = "url"
       THEN [status |-> 200, body |-> streamUrl, filename |-> <<>>]
     ELSE [status |-> 200,
           body |-> <<"#EXTM3U\n#EXTINF:-1,">> \o channelName \o <<"\n">>
                      \o streamUrl \o <<"\n">>,
           filename |-> filename \o <<".m3u">>]

\* the handler runs without an await: it reads this.devices and answers
StreamRequest(c, endpoint, id, ch, program, name) ==
  /\ reqs[c].pc = "idle"
  /\ reqs' = [reqs EXCEPT ![c] =
       [@ EXCEPT !.op = endpoint,
                 !.response = StreamResponse(endpoint, id, ch, program, name, devices)]]
  /\ UNCHANGED <<varsMon, varsDisc, varsDev, varsTun, ticks, tickEvent, client, monitoringInterval>>

\* the stream requests that arrive while devices are discovered, one
\* discoverDevices call after the other
NextStream ==
  \/ \E endpoint \in {"url", "m3u"}, id \in {"1040AAAA", "10.0.0.7"},
        ch \in {"", "14"}, program \in {"", "3"},
        name \in {<<>>, <<"K", "T", "L", "A", " ", "5", ".", "1">>} :
       StreamRequest(1, endpoint, id, ch, program, name)
  \/ \E f \in BOOLEAN : DiscoverCall(1, f)
  \/ \E d \in UdpResults : UdpResolved(1, d)
  \/ \E d \in HttpResults : HttpResolved(1, d)
  \/ AutoReturned(1)
  \/ \E i \in 1..2, out \in ModelOutputs : ModelResolved(1, i, out)
  \/ \E i \in 1..2, out \in DiscoverOutputs : DiscoverResolved(1, i, out)

(* ------------------- the browser: reconnection ------------------------ *)

\* the user picks a device and a tuner; the effects copy them into
\* selectedDeviceRef.current and selectedTunerRef.current
SelectDevice(d, t) ==
  /\ client' = [client EXCEPT !.device = d, !.tuner = t]
  /\ UNCHANGED <<varsMon, varsDisc, varsDev, varsTun, ticks, tickEvent, reqs, monitoringInterval>>

\* the connect handler that never restarts monitoring
ClientConnect_noRestart ==
  LET s == client.conn + 1
  IN /\ ~client.connected
     /\ client.conn < NumSockets
     /\ sockState' = [sockState EXCEPT ![s] = "connected"]
     /\ client' = [client EXCEPT !.connected = TRUE, !.conn = s,
                                 !.hasConnectedOnce = TRUE,
                                 !.deviceAt = client.device,
                                 !.wire = client.buffer, !.buffer = 0]
     /\ UNCHANGED <<monitoringIntervals, timerLive, timerInfo, nextTimerId,
                    tickSeq, inflight, lastEvent>>
     /\ UNCHANGED <<varsDisc, varsDev, varsTun, ticks, tickEvent, reqs, monitoringInterval>>

\* the socket (re)connects: the server's io.on('connection') gets a socket
\* with a new id, the packets buffered while offline are written, and the
\* client's 'connect' handler runs: the first time it sets hasConnectedOnce,
\* later, if selectedDeviceRef.current is set, it calls setTimeout(..., 100)
ClientConnect ==
  LET s == client.conn + 1
  IN /\ ~client.connected
     /\ client.conn < NumSockets
     /\ sockState' = [sockState EXCEPT ![s] = "connected"]
     /\ client' = [client EXCEPT !.connected = TRUE, !.conn = s,
                                 !.hasConnectedOnce = TRUE,
                                 !.deviceAt = client.device,
                                 !.wire = client.buffer, !.buffer = 0,
                                 !.timers = IF client.hasConnectedOnce /\ client.device # ""
                                              THEN @ \cup {s} ELSE @]
     /\ UNCHANGED <<monitoringIntervals, timerLive, timerInfo, nextTimerId,
                    tickSeq, inflight, lastEvent>>
     /\ UNCHANGED <<varsDisc, varsDev, varsTun, ticks, tickEvent, reqs, monitoringInterval>>

\* the connection drops: the packets on it are lost, the server's
\* 'disconnect' handler stops the session of the socket
ClientDisconnect ==
  /\ client.connected
  /\ client' = [client EXCEPT !.connected = FALSE, !.wire = 0]
  /\ sockState' = [sockState EXCEPT ![client.conn] = "closed"]
  /\ LET r == disconnectCleanup(Registry, client.conn)
     IN /\ monitoringIntervals' = r.mi
        /\ timerLive' = r.live
  /\ UNCHANGED <<timerInfo, nextTimerId, tickSeq, inflight, lastEvent>>
  /\ UNCHANGED <<varsDisc, varsDev, varsTun, ticks, tickEvent, reqs, monitoringInterval>>

\* the timeout set by the connect handler of connection c fires:
\* newSocket.emit('start-monitoring', {deviceId: selectedDeviceRef.current,
\* tuner: selectedTunerRef.current}), buffered while the socket is offline
ReconnectTimerFires(c) ==
  /\ c \in client.timers
  /\ client' = [client EXCEPT
       !.timers = @ \ {c},
       !.emitted = @ \cup {c},
       !.sent = [deviceId |-> client.device, tuner |-> client.tuner],
       !.wire = IF client.connected THEN @ + 1 ELSE @,
       !.buffer = IF client.connected THEN @ ELSE @ + 1]
  /\ UNCHANGED <<varsMon, varsDisc, varsDev, varsTun, ticks, tickEvent, reqs, monitoringInterval>>

\* the server reads a start-monitoring packet of the connection:
\* socket.on('start-monitoring') calls startMonitoring(socket, ...)
ServerReceives ==
  /\ client.connected
  /\ client.wire > 0
  /\ client' = [client EXCEPT !.wire = @ - 1]
  /\ LET r == startMonitoring(Registry, client.conn, nextTimerId)
     IN /\ monitoringIntervals' = r.mi
        /\ timerLive' = r.live
  /\ timerInfo' = [timerInfo EXCEPT ![nextTimerId] =
                     [sock |-> client.conn, mode |-> "single", arg |-> 0]]
  /\ nextTimerId' = nextTimerId + 1
  /\ UNCHANGED <<sockState, tickSeq, inflight, lastEvent>>
  /\ UNCHANGED <<varsDisc, varsDev, varsTun, ticks, tickEvent, reqs, monitoringInterval>>

NextClient ==
  \/ \E d \in {"1040AAAA", "10.0.0.7"}, t \in {0, 1} : SelectDevice(d, t)
  \/ ClientConnect
  \/ ClientDisconnect
  \/ \E c \in Sockets : ReconnectTimerFires(c)
  \/ ServerReceives

(* ------------------- the browser: antenna history --------------------- *)

\* const MAX_DATA_POINTS = 60
MAX_DATA_POINTS == 60

\* the status of a tuner in the update that arrives as number n
SampleStatus(n) == [ss |-> n % 101, snq |-> (7 * n) % 101]

\* history.signal.push(status?.ss || 0); history.snr.push(status?.snq || 0);
\* history.timestamps.push(now); if (history.signal.length >
\* MAX_DATA_POINTS) { shift() of the three arrays }
AddPoint(history, status, t) ==
  LET h == [signal |-> Append(history.signal, IF status = Null THEN 0 ELSE status.ss),
            snr |-> Append(history.snr, IF status = Null THEN 0 ELSE status.snq),
            timestamps |-> Append(history.timestamps, t)]
  IN IF Len(h.signal) > MAX_DATA_POINTS
       THEN [signal |-> Tail(h.signal), snr |-> Tail(h.snr),
             timestamps |-> Tail(h.timestamps)]
       ELSE h

\* allTunersData.forEach(({ tuner, status }) => {...}) on newHistory =
\* { ...prev }: a tuner without an entry gets one with three empty arrays
RECURSIVE UpdateHistory(_, _, _)
UpdateHistory(newHistory, allTunersData, t) ==
  IF allTunersData = <<>> THEN newHistory
  ELSE LET e == Head(allTunersData)
           history == IF e.tuner \in DOMAIN newHistory THEN newHistory[e.tuner]
                      ELSE [signal |-> <<>>, snr |-> <<>>, timestamps |-> <<>>]
       IN UpdateHistory((e.tuner :> AddPoint(history, e.status, t)) @@ newHistory,
                        Tail(allTunersData), t)

\* root.render(<React.StrictMode><App /></React.StrictMode>): AntennaMode
\* mounts with historyData = {}; dev: the development build, where React
\* calls every state updater function twice
MountAntennaMode(dev) ==
  /\ ~client.antenna.mounted
  /\ client' = [client EXCEPT !.antenna = [@ EXCEPT !.mounted = TRUE, !.dev = dev]]
  /\ UNCHANGED <<varsMon, varsDisc, varsDev, varsTun, ticks, tickEvent, reqs, monitoringInterval>>

\* the effect on [allTunersData]: nothing for an empty array, else
\* setHistoryData(prev => ...). The updater pushes to the arrays of prev
\* (newHistory shares them), so its second call in the development build
\* starts from the arrays the first call has changed; the entries the first
\* call created are not in prev.
AntennaStatus(allTunersData, odd) ==
  LET a == client.antenna
      t == a.arrivals + 1
      prev == a.historyData
      once == UpdateHistory(prev, allTunersData, t)
      changed == [x \in DOMAIN prev |-> once[x]]
      twice == UpdateHistory(changed, allTunersData, t)
  IN /\ a.mounted
     /\ a.arrivals < MaxArrivals
     /\ odd => a.odd < MaxOddUpdates
     /\ client' = [client EXCEPT !.antenna =
          IF allTunersData = <<>> THEN [a EXCEPT !.odd = @ + 1]
          ELSE [a EXCEPT !.arrivals = t,
                         !.odd = IF odd THEN @ + 1 ELSE @,
                         !.historyData = IF a.dev THEN twice ELSE once]]
     /\ UNCHANGED <<varsMon, varsDisc, varsDev, varsTun, ticks, tickEvent, reqs, monitoringInterval>>

\* the antenna-mode-status events of a device with two tuners: both tuners
\* answered, the second failed, or an empty array
NextAntenna ==
  \/ \E dev \in BOOLEAN : MountAntennaMode(dev)
  \/ LET s == SampleStatus(client.antenna.arrivals + 1)
     IN \/ AntennaStatus(<<[tuner |-> 0, status |-> s], [tuner |-> 1, status |-> s]>>,
                         FALSE)
        \/ AntennaStatus(<<[tuner |-> 0, status |-> s], [tuner |-> 1, status |-> Null]>>,
                         TRUE)
        \/ AntennaStatus(<<>>, TRUE)

(* ------------- backend/server.js: the single polling timer ------------ *)

\* a start that does not stop the timer set before
LegacyStart_noStop(s, mode, arg) ==
  /\ sockState[s] = "connected"
  /\ nextTimerId <= MaxTimerEvents
  /\ monitoringInterval' = nextTimerId
  /\ timerLive' = timerLive \cup {nextTimerId}
  /\ timerInfo' = [timerInfo EXCEPT ![nextTimerId] =
                     [sock |-> s, mode |-> mode, arg |-> arg]]
  /\ nextTimerId' = nextTimerId + 1
  /\ UNCHANGED <<sockState, monitoringIntervals, tickSeq, inflight, lastEvent>>
  /\ UNCHANGED <<varsDisc, varsDev, varsTun, ticks, tickEvent, reqs, client>>

\* socket.on('start-monitoring') and socket.on('start-antenna-mode'):
\* startMonitoring / startAntennaMode call this.stopMonitoring(), which
\* clears the interval of this.monitoringInterval if it is set, then
\* this.monitoringInterval = setInterval(..., 1000)
LegacyStart(s, mode, arg) ==
  /\ sockState[s] = "connected"
  /\ nextTimerId <= MaxTimerEvents
  /\ monitoringInterval' = nextTimerId
  /\ timerLive' = (timerLive \ {monitoringInterval}) \cup {nextTimerId}
  /\ timerInfo' = [timerInfo EXCEPT ![nextTimerId] =
                     [sock |-> s, mode |-> mode, arg |-> arg]]
  /\ nextTimerId' = nextTimerId + 1
  /\ UNCHANGED <<sockState, monitoringIntervals, tickSeq, inflight, lastEvent>>
  /\ UNCHANGED <<varsDisc, varsDev, varsTun, ticks, tickEvent, reqs, client>>

\* socket.on('stop-monitoring') and socket.on('disconnect'): both call
\* hdhrController.stopMonitoring(): if (this.monitoringInterval) {
\* clearInterval(this.monitoringInterval); this.monitoringInterval = null }
LegacyStop(s, event) ==
  /\ sockState[s] = "connected"
  /\ sockState' = IF event = "disconnect" THEN [sockState EXCEPT ![s] = "closed"]
                  ELSE sockState
  /\ timerLive' = timerLive \ {monitoringInterval}
  /\ monitoringInterval' = NoTimer
  /\ UNCHANGED <<monitoringIntervals, timerInfo, nextTimerId, tickSeq, inflight,
                 lastEvent>>
  /\ UNCHANGED <<varsDisc, varsDev, varsTun, ticks, tickEvent, reqs, client>>

\* the socket events of backend/server.js, from any client
NextLegacy ==
  \/ \E s \in Sockets : Connect(s)
  \/ \E s \in Sockets : LegacyStart(s, "single", 0)
  \/ \E s \in Sockets, n \in TunerCounts : LegacyStart(s, "antenna", n)
  \/ \E s \in Sockets, event \in {"stop-monitoring", "disconnect"} : LegacyStop(s, event)

(* -------------------------- specifications ---------------------------- *)

\* the state after construction under one of the environments E
InitWith(E) ==
  /\ InitMon /\ InitDisc /\ InitTun /\ InitMore
  /\ \E e \in E : InitDev(e.disable, e.manual)

\* the environment variables are unset
Init == InitWith({[disable |-> FALSE, manual |-> <<>>]})

\* the command outputs getTunerStatus will meet are drawn
InitStatus ==
  /\ InitMon /\ InitDisc /\ InitDev(FALSE, <<>>) /\ InitMore
  /\ \E i \in TunerInputs : tin = i
  /\ tout = Pending
  /\ progs = [c \in Calls |-> IdleProg]

Next ==
  \/ NextMon \/ NextDisc \/ NextDev \/ NextHost \/ GetTunerStatus \/ NextProg
  \/ NextTick \/ NextCmd \/ NextClient \/ NextScan \/ NextAntenna
  \/ NextLegacy
  \/ \E endpoint \in {"url", "m3u"}, id \in {"1040AAAA", "10.0.0.7"},
        ch \in {"", "14"}, program \in {"", "3"},
        name \in {<<>>, <<"K", "T", "L", "A", " ", "5", ".", "1">>} :
       StreamRequest(1, endpoint, id, ch, program, name)

\* the monitoring sessions alone
SpecMon == Init /\ [][NextMon]_vars

\* the discovery calls alone
SpecDisc == Init /\ [][NextDisc]_vars

\* discoverDevices under every environment
SpecDev == InitWith(EnvConfigs) /\ [][NextDev]_vars

\* getDeviceByHost as discoverDevices calls it when auto-discovery is disabled
SpecHost ==
  /\ InitWith({e \in EnvConfigs : e.disable /\ Len(ManualHosts(e.manual)) = 1})
  /\ [][NextHost]_vars

\* getTunerStatus applied to every pair of command outputs
SpecStatus == InitStatus /\ [][GetTunerStatus]_vars

\* the getCurrentChannelPrograms calls alone
SpecProg == Init /\ [][NextProg]_vars

\* one monitoring session with the queries of its ticks
SpecTick == Init /\ [][NextTick]_vars

\* the methods that run a single command, with the routes that call them
SpecCmd == Init /\ [][NextCmd]_vars

\* the stream endpoints while discoverDevices calls run, with auto-discovery
\* and one manual host
SpecStream ==
  /\ InitWith({[disable |-> FALSE, manual |-> <<"10.0.0.7", "">>]})
  /\ [][NextStream]_vars

\* the history of the AntennaMode component over the updates it receives
SpecAntenna == Init /\ [][NextAntenna]_vars

\* the socket handlers of backend/server.js with its single timer
SpecLegacy == Init /\ [][NextLegacy]_vars

\* scanChannels applied to every scan output
SpecScan == Init /\ [][NextScan]_vars

\* the browser's socket and the server's handlers; the runtime fires every
\* timeout that was set, and the server reads the packets of a connection
\* that stays open
SpecClient ==
  /\ Init /\ [][NextClient]_vars
  /\ \A c \in Sockets : WF_vars(ReconnectTimerFires(c))
  /\ WF_vars(ServerReceives)

Spec == Init /\ [][Next]_vars

(* ------------------- claims: monitoring sessions ---------------------- *)

LiveTimersOf(s) == {t \in timerLive : timerInfo[t].sock = s}

\* C1: each client has at most one live interval timer, and a client has a
\* live timer if and only if monitoringIntervals holds an entry for that
\* client whose value is that timer (no orphaned timer).
C1_OneRecordedTimerPerClient ==
  \A s \in Sockets :
    /\ Cardinality(LiveTimersOf(s)) <= 1
    /\ \A t \in LiveTimersOf(s) : monitoringIntervals[s] = t
    /\ monitoringIntervals[s] # NoTimer => monitoringIntervals[s] \in LiveTimersOf(s)

\* C1 witness: a client replaced its session; the old timer is cleared and
\* the new one is the recorded one
C1_Witness ==
  \E s \in Sockets, t1, t2 \in TimerIds :
    /\ t1 # t2
    /\ timerInfo[t1].sock = s /\ timerInfo[t2].sock = s
    /\ t1 \notin timerLive
    /\ monitoringIntervals[s] = t2 /\ t2 \in timerLive

\* C2 (as claimed): ticks of one session are strictly sequential, a session
\* never has two ticks in flight at the same time.
C2_TicksSequential ==
  \A t \in TimerIds : Cardinality(TicksOf(t)) <= 1

\* C3 (as claimed): a tick that is in flight when its session is stopped or
\* replaced emits no event to the client after the stop, i.e. every event a
\* client received was emitted by a timer that was live at that moment.
C3_NoEventAfterStop ==
  lastEvent.live

\* C4: stopMonitoring(client) on an active session cancels the session's
\* timer, and a cancelled timer stays cancelled and never starts a tick again.
C4_NoTickAfterStop ==
  [][ /\ \A s \in Sockets :
           (OnStopMonitoring(s) /\ monitoringIntervals[s] # NoTimer)
             => monitoringIntervals[s] \notin timerLive'
      /\ \A t \in TimerIds :
           (timerInfo[t] # NoInfo /\ t \notin timerLive)
             => (t \notin timerLive' /\ tickSeq'[t] = tickSeq[t]) ]_vars

\* C4 witness: a session that ticked was stopped by a client that is still
\* connected, while the model would still follow further ticks
C4_Witness ==
  \E t \in TimerIds :
    /\ timerInfo[t] # NoInfo /\ t \notin timerLive
    /\ tickSeq[t] > 0 /\ TimerEvents < MaxTimerEvents
    /\ sockState[timerInfo[t].sock] = "connected"
    /\ monitoringIntervals[timerInfo[t].sock] = NoTimer

\* C5: stopMonitoring is idempotent: after a stop-monitoring event the client
\* has no session record and no live timer and a second stopMonitoring would
\* change nothing; for a client without a session the event changes nothing
\* at all, the sessions of the other clients included.
C5_StopIdempotent ==
  [][ \A s \in Sockets :
        OnStopMonitoring(s) =>
          /\ monitoringIntervals'[s] = NoTimer
          /\ \A t \in timerLive' : timerInfo'[t].sock # s
          /\ stopMonitoring([mi |-> monitoringIntervals', live |-> timerLive'], s)
               = [mi |-> monitoringIntervals', live |-> timerLive']
          /\ monitoringIntervals[s] = NoTimer =>
               (monitoringIntervals' = monitoringIntervals /\ timerLive' = timerLive) ]_vars

\* C5 witness: a connected client whose session was stopped (so a further
\* stop is a stop without a session) while another client has a live session
C5_Witness ==
  \E s, b \in Sockets, t \in TimerIds :
    /\ s # b
    /\ sockState[s] = "connected" /\ monitoringIntervals[s] = NoTimer
    /\ timerInfo[t].sock = s /\ t \notin timerLive
    /\ monitoringIntervals[b] \in timerLive

\* C6: no session outlives its client connection: a client that has a live
\* polling timer or a session record is currently connected.
C6_NoSessionWithoutConnection ==
  \A s \in Sockets :
    (monitoringIntervals[s] # NoTimer \/ LiveTimersOf(s) # {})
      => sockState[s] = "connected"

\* C6 witness: a client disconnected while a tick of its session was in flight
C6_Witness ==
  \E s \in Sockets, k \in inflight :
    /\ sockState[s] = "closed"
    /\ timerInfo[k.timer].sock = s

\* an event of client a's socket (none of them is a tick step)
SocketEventOf(a) ==
  /\ sockState[a] = "connected"
  /\ inflight' = inflight /\ tickSeq' = tickSeq
  /\ \/ OnStartMonitoring(a)
     \/ \E n \in TunerCounts : OnStartAntennaMode(a, n)
     \/ OnStopMonitoring(a)
     \/ OnDisconnect(a)

\* C7: sessions of different clients are independent: a start, stop or
\* disconnect of client a leaves client b's session record, live timer,
\* ticks in flight and received events unchanged.
C7_SessionsIndependent ==
  [][ \A a \in Sockets :
        SocketEventOf(a) =>
          \A b \in Sockets \ {a} :
            /\ monitoringIntervals'[b] = monitoringIntervals[b]
            /\ {t \in timerLive' : timerInfo'[t].sock = b} = LiveTimersOf(b)
            /\ {k \in inflight' : timerInfo'[k.timer].sock = b}
                 = {k \in inflight : timerInfo[k.timer].sock = b}
            /\ lastEvent'.sock = b => lastEvent' = lastEvent ]_vars

\* C7 witness: client a's session was stopped, client b's session is live
\* and b has received an event of it
C7_Witness ==
  \E a, b \in Sockets, t \in TimerIds :
    /\ a # b
    /\ timerInfo[t].sock = a /\ t \notin timerLive
    /\ monitoringIntervals[b] \in timerLive
    /\ lastEvent.sock = b /\ lastEvent.timer = monitoringIntervals[b]

(* ------------------------ claims: discovery --------------------------- *)

\* the call c got past the broadcast step with no broadcast device found
NoBroadcast(c) ==
  calls[c].pc \in {"http", "done"} /\ Len(calls[c].udp) = 0

\* a cloud cache existed before call c started: a call that had finished by
\* then had read one or had stored one
CacheExistedBefore(c) ==
  \E p \in calls[c].after :
    NoBroadcast(p) /\ (calls[p].http > 0 \/ ~calls[p].sawCache.isNull)

\* C8: with no broadcast device found and a cloud cache present (even an
\* empty list), a forceRefresh=false call does not invoke the HTTP fallback
\* and returns the cached list; the second of two consecutive
\* forceRefresh=false calls never invokes it.
C8_CacheHit ==
  \A c \in Calls :
    (NoBroadcast(c) /\ ~calls[c].force) =>
      /\ (~calls[c].sawCache.isNull \/ CacheExistedBefore(c)) =>
           /\ calls[c].http = 0
           /\ calls[c].pc = "done"
           /\ calls[c].result = calls[c].sawCache.list
           /\ ~calls[c].sawCache.isNull
      /\ (\E p \in calls[c].after : NoBroadcast(p) /\ ~calls[p].force) =>
           calls[c].http = 0

\* C8 witness: the second of two consecutive forceRefresh=false calls hit a
\* cache holding the empty list
C8_Witness ==
  \E c \in Calls, p \in Calls :
    /\ p \in calls[c].after /\ NoBroadcast(p) /\ ~calls[p].force
    /\ NoBroadcast(c) /\ ~calls[c].force /\ calls[c].pc = "done"
    /\ calls[c].sawCache = CacheOf(<<>>)
    /\ calls[c].http = 0

\* C9: with no broadcast device found, a forceRefresh=true call invokes the
\* HTTP fallback exactly once whatever the cache holds, and on its return the
\* cache is that call's result.
C9_ForceRefreshCallsHttp ==
  [][ \A c \in Calls :
        (calls'[c].force /\ calls'[c].pc \in {"http", "done"}
           /\ Len(calls'[c].udp) = 0) =>
          /\ calls'[c].http = 1
          /\ (calls[c].pc = "http" /\ calls'[c].pc = "done") =>
               httpDiscoveryCache' = CacheOf(calls'[c].result) ]_vars

\* C9 witness: a force-refresh call found a populated cache, called the HTTP
\* fallback once and replaced the cache by a different list
C9_Witness ==
  \E c \in Calls :
    /\ calls[c].force /\ calls[c].pc = "done" /\ Len(calls[c].udp) = 0
    /\ calls[c].http = 1
    /\ ~calls[c].sawCache.isNull /\ Len(calls[c].sawCache.list) > 0
    /\ calls[c].result # calls[c].sawCache.list
    /\ httpDiscoveryCache = CacheOf(calls[c].result)

\* C10: when broadcast discovery returns at least one device the call returns
\* exactly those devices, does not invoke the HTTP fallback and leaves the
\* cloud cache unchanged, for both values of forceRefresh.
C10_BroadcastAuthoritative ==
  [][ \A c \in Calls :
        (calls[c].pc = "udp" /\ calls'[c].pc # "udp" /\ Len(calls'[c].udp) > 0) =>
          /\ calls'[c].pc = "done"
          /\ calls'[c].result = calls'[c].udp
          /\ calls'[c].http = 0
          /\ httpDiscoveryCache' = httpDiscoveryCache ]_vars

\* C10 witness: a force-refresh call returned the broadcast devices while a
\* populated cloud cache existed
C10_Witness ==
  \E c \in Calls :
    /\ calls[c].force /\ calls[c].pc = "done"
    /\ Len(calls[c].udp) > 0 /\ calls[c].result = calls[c].udp
    /\ calls[c].http = 0
    /\ ~httpDiscoveryCache.isNull /\ Len(httpDiscoveryCache.list) > 0

\* C11: once the cloud cache holds a list, its value changes only in a step
\* that completes the HTTP discovery of a call made with forceRefresh = true;
\* no step of a forceRefresh = false call replaces a stored list, under every
\* interleaving of concurrently running discovery calls.
C11_CacheReplacedOnlyByForce ==
  [][ (~httpDiscoveryCache.isNull /\ httpDiscoveryCache' # httpDiscoveryCache) =>
        \E c \in Calls :
          /\ calls[c].pc = "http" /\ calls'[c].pc = "done"
          /\ calls[c].force ]_vars

(* ---------------- claims: discoverDevices, manual hosts --------------- *)

NoDupIds(list) ==
  \A i, j \in 1..Len(list) : list[i].id = list[j].id => i = j

\* every id of list is in merged, with the first entry of list that has it
FirstSurvive(list, merged) ==
  \A i \in 1..Len(list) :
    (\A k \in 1..(i - 1) : list[k].id # list[i].id) =>
      \E j \in 1..Len(merged) : merged[j] = list[i]

\* C12: the array a discoverDevices call returns and stores in this.devices
\* never has two entries with the same id; the auto-discovered devices are
\* all in it, so when a manual host's id collides with an auto-discovered id
\* the auto-discovered entry is the one that survives.
C12_NoDuplicateIds ==
  [][ /\ NoDupIds(devices')
      /\ \A c \in Calls :
           /\ (dcalls[c].pc = "auto" /\ dcalls'[c].pc = "manual") =>
                /\ NoDupIds(dcalls'[c].devices)
                /\ FirstSurvive(calls[c].result, dcalls'[c].devices)
           /\ (dcalls[c].pc = "auto" /\ dcalls'[c].pc = "idle") =>
                FirstSurvive(calls[c].result, devices')
           /\ (dcalls[c].pc = "manual" /\ dcalls'[c].pc = "idle") =>
                /\ FirstSurvive(dcalls[c].devices, devices')
                /\ \A i \in 1..Len(dcalls[c].look) :
                     \E j \in 1..Len(devices') :
                       devices'[j].id = dcalls[c].look[i].host ]_vars

\* C12 witness: a call returned the device HTTP discovery found at 10.0.0.5
\* although the lookup of the manual host 10.0.0.5 resolved to another device
\* with the same id
C12_Witness ==
  /\ \A c \in Calls : dcalls[c].pc = "idle"
  /\ devices = <<HttpDevice("1040AAAA", "10.0.0.5", <<"HDHR5-4K">>)>>
  /\ manualDevices = <<"10.0.0.5">>
  /\ deviceNameCache["10.0.0.5"].present
  /\ deviceNameCache["10.0.0.5"].device.id = devices[1].id
  /\ deviceNameCache["10.0.0.5"].device # devices[1]

\* C13: with HDHOMERUN_DISABLE_DISCOVERY=true no autoDiscoverDevices call is
\* ever made (neither UDP nor HTTP discovery runs), the cloud cache keeps its
\* value, and this.devices holds only devices of the manual hosts.
C13_DisabledDiscovery ==
  disableDiscovery =>
    /\ \A c \in Calls : calls[c].pc = "idle" /\ calls[c].http = 0
    /\ httpDiscoveryCache = NullCache
    /\ \A c \in Calls : dcalls[c].devices = <<>>
    /\ \A i \in 1..Len(devices) :
         /\ devices[i].id # ""
         /\ \E j \in 1..Len(manualDevices) : manualDevices[j] = devices[i].id

\* C13 witness: discovery is disabled and a call returned a manual host
C13_Witness ==
  /\ disableDiscovery
  /\ started > 0
  /\ \A c \in Calls : dcalls[c].pc = "idle"
  /\ Len(devices) = 1 /\ devices[1].id = "10.0.0.7"

\* the manual hosts of call c are looked up in this step
LookupsStart(c) ==
  \/ dcalls[c].pc = "auto" /\ dcalls'[c].pc # "auto"
  \/ /\ disableDiscovery /\ started' # started
     /\ dcalls[c].pc = "idle"
     /\ \A e \in Calls : e < c => dcalls[e].pc # "idle"

\* lookup i of call c resolves in this step
LookupCompletes(c, i) ==
  /\ dcalls[c].pc = "manual"
  /\ dcalls[c].look[i].pc # "done"
  /\ \/ dcalls'[c].pc = "idle"
     \/ dcalls'[c].look[i].pc = "done"

\* C14: when getDeviceByHost is called and the host's entry exists and is
\* younger than the 5-minute TTL, it returns the cached device and issues no
\* query; when there is no entry or its age has reached the TTL it issues
\* the model query, and on resolving it stores an entry stamped with the
\* time of that moment.
C14_CacheTTL ==
  [][ \A c \in Calls :
        /\ LookupsStart(c) =>
             \A i \in 1..Len(ManualHosts(manualDevices)) :
               LET h == ManualHosts(manualDevices)[i]
                   e == deviceNameCache'[h]
               IN IF e.present /\ now - e.timestamp < 300000
                    THEN /\ dcalls'[c].pc = "manual" =>
                              /\ dcalls'[c].look[i].pc = "done"
                              /\ dcalls'[c].look[i].device = e.device
                         /\ dcalls'[c].pc = "idle" =>
                              /\ \E j \in 1..Len(devices') : devices'[j].id = h
                              /\ disableDiscovery =>
                                   \E j \in 1..Len(devices') : devices'[j] = e.device
                         /\ deviceNameCache' = deviceNameCache
                    ELSE /\ dcalls'[c].pc = "manual"
                         /\ dcalls'[c].look[i].pc = "model"
        /\ dcalls[c].pc = "manual" =>
             \A i \in 1..Len(dcalls[c].look) :
               LookupCompletes(c, i) =>
                 /\ deviceNameCache'[dcalls[c].look[i].host].present
                 /\ deviceNameCache'[dcalls[c].look[i].host].timestamp = now ]_vars

\* C14 witness: a lookup is querying the device although it found an entry,
\* and that entry is exactly as old as the TTL
C14_Witness ==
  \E c \in Calls :
    /\ dcalls[c].pc = "manual"
    /\ \E i \in 1..Len(dcalls[c].look) :
         /\ dcalls[c].look[i].pc = "model"
         /\ dcalls[c].look[i].expired
         /\ deviceNameCache[dcalls[c].look[i].host].present
         /\ now - deviceNameCache[dcalls[c].look[i].host].timestamp = 300000

\* C15: whatever the model query and the discover query return,
\* getDeviceByHost resolves to a device whose id and ip are the configured
\* host; online is false exactly when the model query failed; the device,
\* also the offline placeholder, is cached; the vendor id recovered by the
\* discover query appears only in the name.
C15_HostDevice ==
  [][ \A c \in Calls :
        dcalls[c].pc = "manual" =>
          \A i \in 1..Len(dcalls[c].look) :
            LookupCompletes(c, i) =>
              LET h == dcalls[c].look[i].host
                  dev == deviceNameCache'[h].device
              IN /\ deviceNameCache'[h].present
                 /\ dev.id = h /\ dev.ip = h
                 /\ dev.id \notin VendorIdWords
                 /\ dev.online = (dcalls[c].look[i].pc = "discover")
                 /\ ~dev.online => dev.name = [vendor |-> "", model |-> <<>>, host |-> h]
                 /\ dev.online => dev.name.model # <<>>
                 /\ dcalls'[c].pc = "manual" => dcalls'[c].look[i].device = dev
                 /\ dcalls'[c].pc = "idle" =>
                      \E j \in 1..Len(devices') : devices'[j].id = h ]_vars

\* C15 witness: the cached device of a manual host is online, addressed by
\* the host, and carries the recovered vendor id in its name
C15_Witness ==
  \E h \in Hosts :
    /\ deviceNameCache[h].present
    /\ deviceNameCache[h].device.online
    /\ deviceNameCache[h].device.id = h
    /\ deviceNameCache[h].device.name.vendor = "1040AAAA"
    /\ deviceNameCache[h].device.name.model = <<"Unknown">>

(* ------------------ claims: tuner status, programs -------------------- *)

DbFields == {"ssDb", "snrDb", "debugRaw"}

\* the property names a status line made of the tokens S must give
KeysOf(S) == {Patterns[i].key : i \in S} \cup {"lock"}

\* C16: getTunerStatus resolves null when the status query fails, whatever
\* the debug query returns; when the status query returns a status line and
\* the debug query fails or its output does not match dbg=<signal>-<snr>/
\* <third>, it resolves the status parsed from the line, without ssDb,
\* snrDb and debugRaw.
C16_PartialFailure ==
  tout # Pending =>
    /\ tin.s.skind = "error" => tout = Null
    /\ (tin.s.skind = "tokens" /\ tin.s.tokens # {}
          /\ tin.d.dkind \in {"error", "unmatched"}) =>
         /\ tout # Null
         /\ DOMAIN tout \cap DbFields = {}
         /\ DOMAIN tout = KeysOf(tin.s.tokens)
    /\ (tin.s.skind = "tokens" /\ tin.s.tokens # {} /\ tin.d.dkind = "matched") =>
         DOMAIN tout = KeysOf(tin.s.tokens) \cup DbFields

\* C16 witness: a full status line was parsed although the debug query failed
C16_Witness ==
  /\ tout # Pending /\ tout # Null
  /\ tin.s.skind = "tokens" /\ tin.s.tokens = 1..Len(TokenSeq)
  /\ tin.d.dkind = "error"
  /\ DOMAIN tout = KeysOf(tin.s.tokens)

\* C17: when the status line is exactly none, getTunerStatus resolves exactly
\* {channel: "none", lock: false}, with no other field, for every debug output.
C17_NoneStatus ==
  (tout # Pending /\ tin.s.skind = "none") =>
    /\ DOMAIN tout = {"channel", "lock"}
    /\ tout["channel"] = <<"n", "o", "n", "e">>
    /\ tout["lock"] = FALSE

\* C17 witness: the status line was none while the debug output matched
C17_Witness ==
  /\ tout # Pending
  /\ tin.s.skind = "none" /\ tin.d.dkind = "matched" /\ tin.d.signal = 86
  /\ DOMAIN tout = {"channel", "lock"}

\* the values of the tokens of TokenSeq
ExpectedValue ==
  <<<<"8", "v", "s", "b", ":", "5">>, <<"8", "v", "s", "b">>, 86, 100, 99, 1939, 0>>

C19_SignalBands ==
  (tout # Pending /\ tout # Null /\ tin.s.skind = "tokens"
     /\ tin.d.dkind = "matched") =>
    /\ DbFields \subseteq DOMAIN tout
    /\ tin.d.signal \in 80..100 => tout["ssDb"] \in (-500)..(-400)
    /\ tin.d.signal = 86 => tout["ssDb"] = -470
    /\ tin.d.signal \in 60..79 => tout["ssDb"] \in (-600)..(-500)
    /\ tin.d.signal \in 20..59 => tout["ssDb"] \in (-800)..(-600)
    /\ tin.d.signal < 20 => tout["ssDb"] <= -800
    /\ tin.d.snr = 0 => tout["snrDb"] = 0

\* C19 witness: a raw signal of 86 with a raw SNR of 0 gave -47 dB and 0 dB
C19_Witness ==
  /\ tout # Pending /\ tout # Null
  /\ tin.d.dkind = "matched" /\ tin.d.signal = 86 /\ tin.d.snr = 0
  /\ DbFields \subseteq DOMAIN tout
  /\ tout["ssDb"] = -470 /\ tout["snrDb"] = 0

\* the status is null, not locked, or its channel is none
NotTuned(status) ==
  \/ status = Null
  \/ ~status["lock"]
  \/ ("channel" \in DOMAIN status /\ status["channel"] = <<"n", "o", "n", "e">>)

\* C20: when getTunerStatus gave null, a status that is not locked or a
\* status whose channel is none, getCurrentChannelPrograms returns [] at
\* once: it has issued no streaminfo query and scheduled no retry.
C20_NoProgramsUntuned ==
  \A c \in Calls :
    (progs[c].status # Pending /\ NotTuned(progs[c].status)) =>
      /\ progs[c].pc = "done"
      /\ progs[c].result = <<>>
      /\ progs[c].queries = 0
      /\ progs[c].attempt = 0 /\ progs[c].delay = 0

\* C20 witness: a call returned [] without a query for a status with lock
\* set and channel none, while another call is querying a tuned channel
C20_Witness ==
  \E c, e \in Calls :
    /\ progs[c].pc = "done" /\ progs[c].queries = 0
    /\ progs[c].status # Pending /\ progs[c].status # Null
    /\ progs[c].status["lock"]
    /\ progs[c].status["channel"] = <<"n", "o", "n", "e">>
    /\ progs[e].pc = "query" /\ progs[e].queries > 0

(* ------------------- claims: program list retries --------------------- *)

\* C21: for a locked tuner, whatever the streaminfo command answers, a
\* getCurrentChannelPrograms call issues at most maxRetries + 1 queries; an
\* answer with programs ends the call with exactly those programs and no
\* further query; an error or an empty answer schedules a retry while
\* attempts remain and ends the call with [] at query maxRetries + 1.
C21_RetryBound ==
  [][\A c \in Calls :
       /\ progs'[c].queries <= maxRetries + 1
       /\ \A out \in StreamInfoOutputs :
            StreamInfoResolved(c, out) =>
              /\ progs'[c].queries = progs[c].queries
              /\ IF ~out.error /\ Programs(out.lines) # <<>>
                   THEN /\ progs'[c].pc = "done"
                        /\ progs'[c].result = Programs(out.lines)
                   ELSE IF progs[c].queries = maxRetries + 1
                     THEN progs'[c].pc = "done" /\ progs'[c].result = <<>>
                     ELSE progs'[c].pc = "wait"]_vars

\* C21 witness: one call returned [] after maxRetries + 1 queries, another
\* returned a program list from its second query
C21_Witness ==
  \E c, e \in Calls :
    /\ progs[c].pc = "done" /\ progs[c].result = <<>>
    /\ progs[c].queries = maxRetries + 1
    /\ progs[e].pc = "done" /\ progs[e].result # <<>>
    /\ progs[e].queries = 2

\* C30: within one getCurrentChannelPrograms call no retry is scheduled with
\* a shorter delay than the retry before it.
C30_DelaysNeverDecrease ==
  [][\A c \in Calls :
       (progs[c].pc = "query" /\ progs'[c].pc = "wait" /\ progs[c].attempt > 0) =>
         progs'[c].delay >= progs[c].delay]_vars

(* ------------------- claims: the queries of a tick -------------------- *)

\* C22: an antenna-mode invocation that completes calls socket.emit once,
\* with an array of tunerCount entries; entry i is tagged tuner i, its
\* status is null exactly when the status command of tuner i failed, and it
\* is the status made from the outputs of tuner i alone.
C22_AntennaArray ==
  [][\A i \in TickSlots :
       (ticks[i].pc = "tuners" /\ ticks'[i].pc = "idle") =>
         LET e == tickEvent'.last
             N == timerInfo[ticks[i].timer].arg
         IN /\ e.kind = "antenna-mode-status"
            /\ e.by.timer = ticks[i].timer /\ e.by.n = ticks[i].n
            /\ DOMAIN e.payload = 1..N
            /\ \A x \in 0..(N - 1) :
                 /\ e.payload[x + 1].tuner = x
                 /\ (e.payload[x + 1].status = Null)
                      <=> (e.by.fetch[x].status = NullOut)
                 /\ e.payload[x + 1].status =
                      TunerStatus(e.by.fetch[x].status, e.by.fetch[x].debug)]_vars

\* C22 witness: an array of two entries was emitted, the status command of
\* tuner 0 failed and that of tuner 1 did not: one null entry
C22_Witness ==
  /\ tickEvent.last.kind = "antenna-mode-status"
  /\ DOMAIN tickEvent.last.payload = 1..2
  /\ tickEvent.last.by.fetch[0].status = NullOut
  /\ tickEvent.last.payload[1].status = Null
  /\ tickEvent.last.payload[2].status # Null
  /\ tickEvent.last.payload[2].status["ss"] = 86

\* C26: every query of an invocation that has not called back yet runs
\* under a timeout of the runtime.
C26_QueriesBounded ==
  \A i \in TickSlots : \A q \in ticks[i].open : q.timeout > 0

\* C27: a single-tuner invocation issues the plpinfo and l1info queries
\* exactly when the status it fetched is not null and has a channel other
\* than none; otherwise the event it emits has plpInfo and l1Info null.
C27_Atsc3OnlyWhenTuned ==
  LET hasChannel(st) == /\ st # Null
                        /\ "channel" \in DOMAIN st
                        /\ st["channel"] # <<"n", "o", "n", "e">>
      e == tickEvent.last
      asked(c) == \E q \in e.by.issued : q.cmd = c
  IN /\ \A i \in TickSlots : ticks[i].pc \in {"plp", "l1"} => hasChannel(ticks[i].status)
     /\ e.kind = "tuner-status" =>
          /\ e.by.status = TunerStatus(e.by.fetch[0].status, e.by.fetch[0].debug)
          /\ asked("plpinfo") <=> hasChannel(e.by.status)
          /\ asked("l1info") <=> hasChannel(e.by.status)
          /\ ~hasChannel(e.by.status) =>
               e.payload["plpInfo"] = Null /\ e.payload["l1Info"] = Null

\* C27 witness: the second invocation of a session fetched a status with
\* lock and ss and no channel, and emitted its event without a plpinfo query
C27_Witness ==
  /\ tickEvent.last.kind = "tuner-status"
  /\ tickEvent.last.by.n = 2
  /\ tickEvent.last.by.status # Null
  /\ "channel" \notin DOMAIN tickEvent.last.by.status
  /\ tickEvent.last.by.status["ss"] = 86
  /\ \A q \in tickEvent.last.by.issued : q.cmd \in {"status", "debug", "program"}
  /\ tickEvent.last.payload["plpInfo"] = Null

\* C28: socket.emit is called by an invocation in flight, which ends with
\* it (so an invocation emits at most once), and by then every query the
\* invocation issued has called back: status and debug of each tuner it
\* covers and, in single mode, program and whatever followed.
C28_EmitAfterAllQueries ==
  [][(tickEvent'.last.by # tickEvent.last.by /\ tickEvent'.last.kind # "none") =>
       \E i \in TickSlots :
         LET k == ticks[i]
             e == tickEvent'.last
         IN /\ k.pc # "idle" /\ ticks'[i].pc = "idle"
            /\ e.by.timer = k.timer /\ e.by.n = k.n
            /\ k.issued \subseteq e.by.issued
            /\ e.by.open = {}
            /\ \A x \in DOMAIN e.by.fetch, c \in {"status", "debug"} :
                 \E q \in e.by.issued : q.cmd = c /\ q.tuner = x
            /\ e.kind = "tuner-status" => \E q \in e.by.issued : q.cmd = "program"]_vars

\* C28 witness: a single-mode event was emitted after five queries
C28_Witness ==
  /\ tickEvent.last.kind = "tuner-status"
  /\ Cardinality(tickEvent.last.by.issued) = 5
  /\ tickEvent.last.by.open = {}

\* C29: the step in which an invocation is caught leaves the session
\* record and its timer as they are and emits nothing, and as long as the
\* timer is live the runtime can invoke the callback again.
C29_FailureKeepsSession ==
  [][/\ tickEvent'.caught # tickEvent.caught =>
          /\ monitoringIntervals' = monitoringIntervals
          /\ timerLive' = timerLive
          /\ tickEvent'.last = tickEvent.last
     /\ \A t \in timerLive :
          (tickEvent.caught.timer = t /\ TimerEvents < MaxTimerEvents
             /\ ticks[1].pc = "idle") => ENABLED TickStart(1, t)]_vars

\* C29 witness: an invocation of the recorded session was caught and a later
\* invocation of the same timer emitted its event
C29_Witness ==
  /\ tickEvent.caught.n > 0
  /\ monitoringIntervals[1] = tickEvent.caught.timer
  /\ tickEvent.last.kind = "tuner-status"
  /\ tickEvent.last.by.timer = tickEvent.caught.timer
  /\ tickEvent.last.by.n > tickEvent.caught.n

(* ----------------------- claims: single commands ---------------------- *)

\* C23: when the command of setChannel, setAtsc3Channel, incrementChannel,
\* decrementChannel or clearTuner fails, the promise is rejected and the
\* route answers 500 with an error and no success flag (and 200 with
\* success otherwise); getCurrentProgram, getPlpInfo and getL1Info are
\* never rejected and resolve null when their command fails.
C23_WritesRaiseReadsDegrade ==
  \A c \in Calls :
    LET r == reqs[c]
        write == r.op \in {"setChannel", "setAtsc3Channel", "incrementChannel",
                           "decrementChannel", "clearTuner"}
        failed == r.out = <<"error">>
    IN r.pc = "done" =>
         /\ (write /\ failed) =>
              /\ r.settled.rejected
              /\ r.response.status = 500
              /\ DOMAIN r.response.body = {"error"}
         /\ (write /\ ~failed) =>
              /\ ~r.settled.rejected
              /\ r.response.status = 200
              /\ r.response.body.success
         /\ ~write => ~r.settled.rejected /\ r.response.status = 200
         /\ (~write /\ failed) => r.settled.value = Null

\* C23 witness: a failed clearTuner was answered with an error while a failed
\* getPlpInfo resolved null
C23_Witness ==
  \E c, e \in Calls :
    /\ reqs[c].pc = "done" /\ reqs[c].op = "clearTuner"
    /\ reqs[c].out = <<"error">> /\ reqs[c].response.status = 500
    /\ reqs[e].pc = "done" /\ reqs[e].op = "getPlpInfo"
    /\ reqs[e].out = <<"error">> /\ reqs[e].settled.value = Null

(* ------------------------ claims: reconnection ------------------------ *)

\* C24: the connect handler of the first connection sets no timeout and
\* emits nothing; whenever the socket reconnects while a device is selected
\* the client eventually emits start-monitoring, with the device and tuner
\* selected at that moment; and a start-monitoring packet written to a
\* connection that stays open leads to a session for that connection.
C24_ReconnectRestartsMonitoring ==
  /\ [][/\ (client.conn = 0 /\ client'.conn = 1) =>
            /\ client'.timers = {} /\ client'.wire = 0
            /\ client'.emitted = client.emitted
        /\ client'.emitted # client.emitted =>
            /\ client'.sent.deviceId = client.device
            /\ client'.sent.tuner = client.tuner
            /\ client'.sent.deviceId # ""]_vars
  /\ \A c \in 2..NumSockets :
       (client.conn = c /\ client.deviceAt # "") ~> (c \in client.emitted)
  /\ (client.connected /\ client.wire > 0)
       ~> (~client.connected \/ monitoringIntervals[client.conn] # NoTimer)

\* C24 witness: after a reconnection the client emitted start-monitoring
\* for the device and tuner selected then, and the second connection has
\* a session
C24_Witness ==
  /\ client.conn = 2 /\ client.connected
  /\ client.emitted = {2}
  /\ client.sent = [deviceId |-> "10.0.0.7", tuner |-> 1]
  /\ client.deviceAt = "1040AAAA"
  /\ monitoringIntervals[2] # NoTimer
  /\ monitoringIntervals[1] = NoTimer

(* --------------------- claims: forced discovery ----------------------- *)

\* C25: when a discoverDevices(true) call reaches the manual hosts, it
\* starts a model query for every one of them: none of its getDeviceByHost
\* calls returns the device of a deviceNameCache entry, whatever the other
\* discoverDevices calls in flight do.
C25_ForceRefreshQueriesEveryHost ==
  [][\A c \in Calls :
       LET queriesAll == /\ dcalls'[c].pc = "manual"
                         /\ \A i \in 1..Len(dcalls'[c].look) :
                              dcalls'[c].look[i].pc = "model"
       IN Len(ManualHosts(manualDevices)) > 0 =>
            /\ (dcalls[c].pc = "auto" /\ dcalls[c].force /\ dcalls'[c] # dcalls[c])
                 => queriesAll
            /\ (dcalls[c].pc = "idle" /\ dcalls'[c].pc = "manual" /\ dcalls'[c].force)
                 => queriesAll]_vars

(* ---------------------- claims: signal estimate ----------------------- *)

\* C36: for every raw signal the four bands give the same value: ssDb is
\* -90 + signalRaw / 2 dB (in tenths: -900 + 5 * signalRaw), hence without
\* a jump at 20, 60 and 80 and non-decreasing in signalRaw.
C36_OneLine ==
  (tout # Pending /\ tout # Null /\ tin.s.skind = "tokens"
     /\ tin.d.dkind = "matched") =>
    /\ "ssDb" \in DOMAIN tout
    /\ tout["ssDb"] = -900 + 5 * tin.d.signal

\* C36 witness: the raw signal 19, the last value of the weak band, gave
\* -80.5 dB, half a dB below the -80 dB of 20
C36_Witness ==
  /\ tout # Pending /\ tout # Null /\ tin.s.skind = "tokens"
  /\ tin.d.dkind = "matched" /\ tin.d.signal = 19
  /\ "ssDb" \in DOMAIN tout /\ tout["ssDb"] = -805

(* ------------------------ claims: event order ------------------------- *)

\* C35 (as claimed): the events of one session reach the client in the
\* order their ticks were started: an event of a timer that follows
\* another event of the same timer comes from a later tick.
C35_EventsInTickOrder ==
  [][(lastEvent' # lastEvent /\ lastEvent'.timer = lastEvent.timer)
       => lastEvent'.n > lastEvent.n]_vars

(* -------------------------- claims: the scan -------------------------- *)

\* the line holds the pattern and nothing of the two other patterns
IsLineOf(line, pattern) ==
  \A p \in {"SCANNING", "LOCK", "PROGRAM"} :
    (LineMatch(line, p) # 0) <=> (p = pattern)

\* C31 (as claimed): a SCANNING line followed at once by a LOCK line gives
\* a channel with the frequency and channel of the SCANNING line and the
\* modulation, ss, snq and seq of the LOCK line; the scan gives no more
\* channels than it has such pairs of lines.
C31_ScanLockPairs ==
  LET r == reqs[1]
      lines == Split(r.out, <<>>)
      pairs == {i \in 1..(Len(lines) - 1) :
                  IsLineOf(lines[i], "SCANNING") /\ IsLineOf(lines[i + 1], "LOCK")}
      channels == r.settled.value.channels
  IN (r.pc = "done" /\ r.op = "scanChannels") =>
       /\ \A i \in pairs : \E x \in 1..Len(channels) :
            /\ channels[x].frequency = lines[i][1][2]
            /\ channels[x].channel = lines[i][1][3]
            /\ channels[x].modulation = lines[i + 1][1][2]
            /\ channels[x].signalStrength = 86
            /\ channels[x].snr = 71
            /\ channels[x].symbolQuality = 100
       /\ Len(channels) <= Cardinality(pairs)

\* C32 (as claimed): a PROGRAM line is attached to the channel emitted last
\* only until the next SCANNING line: when the SCANNING line before a
\* PROGRAM line gave no channel, no channel holds that program, so the
\* channels hold no more programs than there are PROGRAM lines whose
\* latest SCANNING line gave a channel.
C32_ProgramsUntilNextScan ==
  LET r == reqs[1]
      lines == Split(r.out, <<>>)
      channels == r.settled.value.channels
      scans(i) == {j \in 1..i : LineMatch(lines[j], "SCANNING") # 0}
      gave(j) == \/ LineMatch(lines[j], "LOCK") # 0
                 \/ (j < Len(lines) /\ LineMatch(lines[j + 1], "LOCK") # 0)
      attached == {i \in 1..Len(lines) :
                     /\ LineMatch(lines[i], "PROGRAM") # 0
                     /\ scans(i) # {}
                     /\ \A j \in scans(i) : (\A k \in scans(i) : k <= j) => gave(j)}
      held == SumTo([x \in 1..Len(channels) |-> Len(channels[x].programs)],
                    Len(channels))
  IN (r.pc = "done" /\ r.op = "scanChannels") => held <= Cardinality(attached)

(* --------------------- claims: the stream endpoints ------------------- *)

\* C33: a stream request without ch or program is answered 400 whatever
\* the device list; otherwise it is answered 404 'Device not found' when
\* no device of this.devices has the id (as before any discovery), and 200
\* with http://<ip>:5004/auto/ch<ch>-<program> for the ip of a device of
\* this.devices with that id; this.devices changes only when a
\* discoverDevices call returns.
C33_StreamFromDeviceList ==
  [][/\ \A endpoint \in {"url", "m3u"}, id \in {"1040AAAA", "10.0.0.7"},
           ch \in {"", "14"}, program \in {"", "3"},
           name \in {<<>>, <<"K", "T", "L", "A", " ", "5", ".", "1">>} :
          StreamRequest(1, endpoint, id, ch, program, name) =>
            LET r == reqs'[1].response
                ids == {i \in 1..Len(devices) : devices[i].id = id}
                n == Len(r.body)
            IN /\ (ch = "" \/ program = "") => r.status = 400
               /\ (ch # "" /\ program # "" /\ ids = {}) =>
                    r.status = 404 /\ r.body = <<"Device not found">>
               /\ (ch # "" /\ program # "" /\ ids # {}) =>
                    /\ r.status = 200
                    /\ \E i \in ids :
                         LET url == <<"http://", devices[i].ip, ":5004/auto/ch",
                                      ch, "-", program>>
                         IN IF endpoint = "url" THEN r.body = url
                            ELSE n > 6 /\ SubSeq(r.body, n - 6, n - 1) = url
     /\ devices' # devices =>
          \E c \in Calls : dcalls[c].pc # "idle" /\ dcalls'[c].pc = "idle"]_vars

\* C33 witness: with the device 1040AAAA at 10.0.0.5 in the list, the
\* playlist for channel 14, program 3 was answered with its address
C33_Witness ==
  /\ \E i \in 1..Len(devices) :
       devices[i].id = "1040AAAA" /\ devices[i].ip = "10.0.0.5"
  /\ reqs[1].op = "m3u"
  /\ reqs[1].response.status = 200
  /\ reqs[1].response.body =
       <<"#EXTM3U\n#EXTINF:-1,", "Ch", "14", " Program ", "3", "\n", "http://",
         "10.0.0.5", ":5004/auto/ch", "14", "-", "3", "\n">>
  /\ reqs[1].response.filename = <<"ch", "14", "-", "3", ".m3u">>

(* --------------------- claims: the antenna history -------------------- *)

\* C34 (as claimed): for every tuner the signal, snr and timestamps arrays
\* have the same length, at most 60, and hold the latest updates, one entry
\* per update, in the order of arrival.
C34_LastSixtySamples ==
  LET a == client.antenna
  IN \A x \in DOMAIN a.historyData :
       LET h == a.historyData[x]
           n == Len(h.timestamps)
       IN /\ Len(h.signal) = n /\ Len(h.snr) = n
          /\ n = IF a.arrivals > 60 THEN 60 ELSE a.arrivals
          /\ \A i \in 1..n :
               /\ h.timestamps[i] = a.arrivals - n + i
               /\ h.signal[i] \in {0, h.timestamps[i] % 101}

(* ------------------ claims: the single polling timer ------------------ *)

\* C37: in backend/server.js at most one timer is live, monitoringInterval
\* is set exactly when a timer is live and then holds that timer, and every
\* start-monitoring, start-antenna-mode, stop-monitoring and disconnect
\* event cancels the timer that was live, whichever client started it.
C37_OneTimerProcessWide ==
  /\ [](/\ Cardinality(timerLive) <= 1
        /\ (monitoringInterval # NoTimer) <=> (timerLive # {})
        /\ monitoringInterval # NoTimer => timerLive = {monitoringInterval})
  /\ [][(\A s \in Sockets : ~(sockState[s] = "new" /\ sockState'[s] = "connected"))
          => timerLive \cap timerLive' = {}]_vars

\* C37 witness: the second client's start cancelled the timer the first
\* client had started, and the first client's disconnect cancelled the timer
\* of the second
C37_Witness ==
  /\ timerInfo[1].sock = 1 /\ timerInfo[2].sock = 2
  /\ sockState[1] = "closed" /\ sockState[2] = "connected"
  /\ nextTimerId = 3
  /\ timerLive = {} /\ monitoringInterval = NoTimer

====
